---- MODULE Spec2Model ----
(***************************************************************************)
(* Field-service scheduling assistant: the markdown-table job parser, the  *)
(* time-slot derivation and revision of the review stage, the worksheet    *)
(* view's read-modify-write of the persisted record, and the travel-time   *)
(* estimator.                                                              *)
(*                                                                         *)
(* A JavaScript string is modelled as a sequence of one-character strings, *)
(* so that trim, split, includes, padStart, toUpperCase, regular           *)
(* expression matching and encodeURIComponent are computed and not assumed.*)
(***************************************************************************)
EXTENDS Integers, Sequences, FiniteSets, TLC

VARIABLES
    \* ---- parseMarkdownTable applied to one text (App.tsx) ----
    markdown,       \* the text handed to parseMarkdownTable
    pcParse,        \* "start" before the call, "done" after it
    jobs,           \* the array the call returned
    jobSrc,         \* history: for each returned job, the index of its line
    \* ---- App state (App.tsx) ----
    activeView,     \* useState('tomorrow')
    stage,          \* 'input' | 'review' | 'saved'
    imageFiles,     \* the number of selected image files
    timeSlots,      \* the slot list, owned by App, edited by TimeSlotManager
    isProcessing,
    error,          \* NoMessage or the message shown
    processedData,  \* Null or [dataTable, notifications]
    jobCount,
    localStorage,   \* key -> stored value; a key that is absent maps to no value
    now,            \* Date.now()
    pcProcess,      \* "idle", or "awaiting" while handleProcessImages awaits
    effectPending,  \* TimeSlotManager's effect is scheduled and not yet run
    \* ---- history of the current review ----
    edited,         \* 0-based slot index -> the start the user last chose for it
    derivations,    \* how often the effect wrote default slots in this review
    rerunAfterEdit, \* the effect has run again since the user's last edit
    \* ---- handleStartTimeChange applied to one slot list ----
    pcRevise,       \* "start" before the call, "done" after it
    revised,        \* history: the call's index and start, and the list before it
    \* ---- WorksheetView and its JobCards ----
    pcView,         \* "closed", "loading" (mounted, load effect due) or "open"
    worksheet,      \* WorksheetView's worksheet state, Null until loaded
    comments,       \* WorksheetView's comments state: job index -> text
    cardComment,    \* each JobCard's comment state, by position
    timers,         \* job indices whose JobCard has its debounce timer running
    updates,        \* how many job updates this viewing session has seen
    lastUpdate,     \* history: the handleUpdateJob call that has just been made,
                    \* with the persisted record right before and right after it
    worksheetId,    \* WorksheetView's worksheetId prop, 0 while it is not mounted
    cardFrom,       \* history: by position, the id that was viewed when the
                    \* card's comment state got its text
    \* ---- one call of estimateTravelTime(origin, destination) ----
    origin,
    destination,
    pcEstimate,     \* "idle"; "start" before the call; "lookups" while the two
                    \* geocode calls run; "routing", "routeBody" while the route
                    \* is fetched and read; "resolved" or "rejected" at the end
    lookup,         \* the two geocode calls, o for the origin, d for the destination
    sent,           \* the network requests made so far, in order
    routeData,      \* history: the route the routing service answered with
    estimate,       \* the value the call resolved to: Null or a RouteResult
    \* ---- one TravelConnector (its props are origin and destination) ----
    shown,          \* the connector is mounted
    route,          \* its route state
    loading,        \* its loading state
    fetchDue,       \* its effect is scheduled and not yet run
    requests,       \* the effect runs that called estimateTravelTime, in order
    lastSettle,     \* history: the estimate that has just settled, with the
                    \* route and the loading state right before it
    \* ---- WorksheetList and MessagesList ----
    worksheets,     \* WorksheetList's worksheets state
    messageGroups,  \* MessagesList's messageGroups state
    deleteModal,    \* WorksheetList's deleteModal state
    lastDelete,     \* history: the handleDelete call that has just been made,
                    \* with the store right before it
    \* ---- the parts search of one JobCard ----
    searchStatus,   \* 'idle', 'searching', 'complete' or 'failed'
    searchResult,   \* the result shown, NoResult for null
    currentJobId,   \* the agent job polled, 0 for null
    searches,       \* how many searches were submitted; the agent gives the
                    \* job of submission k the id k
    pendingSearch,  \* the submissions whose response has not come
    pollsInFlight   \* the job ids of the poll requests not yet answered

parseVars == <<markdown, pcParse, jobs, jobSrc>>

appVars == <<activeView, stage, imageFiles, timeSlots, isProcessing, error,
             processedData, jobCount, localStorage, now, pcProcess, effectPending,
             edited, derivations, rerunAfterEdit>>

reviseVars == <<pcRevise, revised>>

viewVars == <<pcView, worksheet, comments, cardComment, timers, updates, lastUpdate,
              worksheetId, cardFrom>>

travelVars == <<origin, destination, pcEstimate, lookup, sent, routeData, estimate>>

connVars == <<shown, route, loading, fetchDue, requests, lastSettle>>

listVars == <<worksheets, messageGroups, deleteModal, lastDelete>>

searchVars == <<searchStatus, searchResult, currentJobId, searches, pendingSearch,
                pollsInFlight>>

vars == <<parseVars, appVars, reviseVars, viewVars, travelVars, connVars, listVars,
          searchVars>>

\* null and undefined, in places that otherwise hold a record
Null == [null |-> TRUE]
Undefined == [undefined |-> TRUE]
\* null, in a place that otherwise holds a message
NoMessage == "null"

(***************************************************************************)
(* Strings                                                                 *)
(***************************************************************************)
UpperChars == <<"A","B","C","D","E","F","G","H","I","J","K","L","M",
                "N","O","P","Q","R","S","T","U","V","W","X","Y","Z">>
LowerChars == <<"a","b","c","d","e","f","g","h","i","j","k","l","m",
                "n","o","p","q","r","s","t","u","v","w","x","y","z">>
DigitChars == <<"0","1","2","3","4","5","6","7","8","9">>

RECURSIVE IndexIn(_, _, _)
\* the first position >= k of c in the sequence cs, 0 when there is none
IndexIn(cs, c, k) ==
    IF k > Len(cs) THEN 0
    ELSE IF cs[k] = c THEN k
    ELSE IndexIn(cs, c, k + 1)

UpperSet == { UpperChars[k] : k \in 1..Len(UpperChars) }
LowerSet == { LowerChars[k] : k \in 1..Len(LowerChars) }
DigitSet == { DigitChars[k] : k \in 1..Len(DigitChars) }

IsUpper(c) == c \in UpperSet
IsLower(c) == c \in LowerSet
IsLetter(c) == IsUpper(c) \/ IsLower(c)
IsDigit(c) == c \in DigitSet
\* the characters /\s/ and String.prototype.trim treat as white space
IsSpace(c) == c \in {" ", "\n", "\t", "\r"}

LowerChar(c) == IF IsUpper(c) THEN LowerChars[IndexIn(UpperChars, c, 1)] ELSE c
UpperChar(c) == IF IsLower(c) THEN UpperChars[IndexIn(LowerChars, c, 1)] ELSE c

toLowerCase(s) == [k \in 1..Len(s) |-> LowerChar(s[k])]
toUpperCase(s) == [k \in 1..Len(s) |-> UpperChar(s[k])]

Min(S) == CHOOSE x \in S : \A y \in S : x <= y
Max(S) == CHOOSE x \in S : \A y \in S : x >= y

\* s.trim(): s without the white space at its two ends
trim(s) ==
    LET solid == { k \in 1..Len(s) : ~IsSpace(s[k]) }
    IN  IF solid = {} THEN <<>> ELSE SubSeq(s, Min(solid), Max(solid))

\* s.startsWith(sub) at position k
MatchesAt(s, sub, k) ==
    /\ k + Len(sub) - 1 <= Len(s)
    /\ \A j \in 1..Len(sub) : s[k + j - 1] = sub[j]

includes(s, sub) == \E k \in 1..(Len(s) + 1) : MatchesAt(s, sub, k)

\* s.split(ch), ch one character: the fragments between the delimiters, the
\* empty ones and the first and last included
split(s, ch) ==
    LET at == SelectSeq([k \in 1..Len(s) |-> k], LAMBDA k : s[k] = ch)
    IN  [j \in 1..(Len(at) + 1) |->
            SubSeq(s, IF j = 1 THEN 1 ELSE at[j - 1] + 1,
                      IF j = Len(at) + 1 THEN Len(s) ELSE at[j] - 1)]

RECURSIVE Join(_, _)
Join(parts, sep) ==
    IF parts = <<>> THEN <<>>
    ELSE IF Len(parts) = 1 THEN parts[1]
    ELSE parts[1] \o sep \o Join(Tail(parts), sep)

\* Array.prototype.slice(1, -1)
SliceInner(a) == IF Len(a) <= 2 THEN <<>> ELSE SubSeq(a, 2, Len(a) - 1)

\* a[i] || dflt for a 0-based index i: undefined and "" are both falsy
OrDefault(a, i, dflt) == IF i + 1 <= Len(a) /\ a[i + 1] # <<>> THEN a[i + 1] ELSE dflt

(***************************************************************************)
(* parseMarkdownTable                                                      *)
(***************************************************************************)
TBD == <<"T","B","D">>

TableLines(md) == split(trim(md), "\n")

\* the lines the loop skips with `continue`
SkippedLine(line) ==
    \/ ~includes(line, <<"|">>)
    \/ includes(line, <<"-","-","-">>)
    \/ /\ includes(toLowerCase(line), <<"t","i","m","e">>)
       /\ includes(toLowerCase(line), <<"a","d","d","r","e","s","s">>)

cleanCols(line) ==
    LET parts == SliceInner(split(line, "|"))
    IN  [k \in 1..Len(parts) |-> trim(parts[k])]

MinCols == 8

AcceptsCols(cols) == Len(cols) >= MinCols

JobOf(cols) ==
    [ time           |-> OrDefault(cols, 0, TBD),
      address        |-> OrDefault(cols, 1, <<>>),
      productCode    |-> OrDefault(cols, 2, <<>>),
      productType    |-> OrDefault(cols, 3, <<>>),
      productBrand   |-> OrDefault(cols, 4, <<>>),
      fault          |-> OrDefault(cols, 5, <<>>),
      errorCode      |-> OrDefault(cols, 6, <<>>),
      productionYear |-> OrDefault(cols, 7, <<>>),
      serialNumber   |-> OrDefault(cols, 8, <<>>) ]

PushesJob(line) == ~SkippedLine(line) /\ AcceptsCols(cleanCols(line))

\* the indices (1-based) of the lines for which the loop pushes a job, in loop order
AcceptedLines(md) ==
    LET lines == TableLines(md)
    IN  SelectSeq([k \in 1..Len(lines) |-> k], LAMBDA k : PushesJob(lines[k]))

parseMarkdownTable(md) ==
    LET lines == TableLines(md)
        acc == AcceptedLines(md)
    IN  [k \in 1..Len(acc) |-> JobOf(cleanCols(lines[acc[k]]))]

(***************************************************************************)
(* Input texts for the parser                                              *)
(***************************************************************************)
MaxLines == 2

Bracketed(cells) == <<"|">> \o Join(cells, <<"|">>) \o <<"|">>
Unbracketed(cells) == Join(cells, <<"|">>)

Cells9 == << <<" ">>, <<"2">>, <<"3">>, <<"4">>, <<"5">>, <<"6">>,
             <<"7">>, <<"8">>, <<"9">> >>
Cells9b == << TBD, <<" ","x"," ">>, <<"3">>, <<"4">>, <<"5">>, <<"6">>,
              <<>>, <<"8">>, <<"9">> >>
CellsDash == << TBD, <<"2">>, <<"3">>, <<"4">>, <<"5">>, <<"6">>,
                <<"-","-","-">>, <<"8">>, <<"9">> >>
CellsHeader == << <<"T","i","m","e">>, <<"A","d","d","r","e","s","s">>, <<"3">>,
                  <<"4">>, <<"5">>, <<"6">>, <<"7">>, <<"8">>, <<"9">> >>
CellsRule == [k \in 1..9 |-> <<"-","-","-">>]

InputLines ==
    { Bracketed(Cells9),
      Bracketed(Cells9b),
      Bracketed(SubSeq(Cells9, 1, 8)),
      Bracketed(SubSeq(Cells9, 1, 7)),
      Bracketed(Cells9 \o << <<"x">> >>),
      Bracketed(CellsDash),
      Bracketed(CellsHeader),
      Bracketed(CellsRule),
      Unbracketed(Cells9b),
      Unbracketed(Cells9b \o << <<"x">> >>),
      <<"M","o","n">>,
      <<>> }

RECURSIVE LineSeqs(_)
LineSeqs(n) ==
    IF n = 0 THEN { <<>> }
    ELSE LET shorter == LineSeqs(n - 1)
         IN  shorter \cup { Append(ls, l) : ls \in { x \in shorter : Len(x) = n - 1 },
                                           l \in InputLines }

InputTexts == { Join(ls, <<"\n">>) : ls \in LineSeqs(MaxLines) }

(***************************************************************************)
(* Numbers and "HH:MM" strings (TimeSlotManager.tsx)                       *)
(***************************************************************************)
NaN == -1

RECURSIVE String(_)
\* String(n) of a non-negative integer, or of NaN
String(n) ==
    IF n = NaN THEN <<"N","a","N">>
    ELSE IF n < 10 THEN <<DigitChars[n + 1]>>
    ELSE String(n \div 10) \o <<DigitChars[(n % 10) + 1]>>

\* s.padStart(2, '0')
padStart2(s) ==
    IF Len(s) >= 2 THEN s
    ELSE IF Len(s) = 1 THEN <<"0">> \o s
    ELSE <<"0","0">>

RECURSIVE DigitsValue(_, _)
DigitsValue(s, acc) ==
    IF s = <<>> THEN acc
    ELSE DigitsValue(Tail(s), acc * 10 + (IndexIn(DigitChars, Head(s), 1) - 1))

\* Number(s): the value of a string of decimal digits, 0 for "", NaN otherwise
Number(s) ==
    IF \A k \in 1..Len(s) : IsDigit(s[k]) THEN DigitsValue(s, 0) ELSE NaN

\* `${String(h).padStart(2, '0')}:${String(m).padStart(2, '0')}` with
\* h = Math.floor(total / 60) and m = total % 60
FormatTime(total) ==
    IF total = NaN THEN <<"N","a","N",":","N","a","N">>
    ELSE padStart2(String(total \div 60)) \o <<":">> \o padStart2(String(total % 60))

FirstOption == 450
LastOption == 1080
OptionStep == 30

timeOptions ==
    { FormatTime(FirstOption + k * OptionStep) :
        k \in 0..((LastOption - FirstOption) \div OptionStep) }

SlotMinutes == 120
FirstDerivedStart == 480

DefaultFirstSlot == [start |-> <<"0","7",":","3","0">>, end |-> <<"0","8",":","3","0">>]

\* the guard of the effect that derives the initial slots
ShouldDerive_NoLengthTest(count, slots) == count > 0
ShouldDerive(count, slots) == count > 0 /\ Len(slots) = 0

\* the slot the loop pushes in iteration i (i >= 1)
DerivedSlot_NoAdvance(i) ==
    [start |-> FormatTime(FirstDerivedStart),
     end   |-> FormatTime(FirstDerivedStart + SlotMinutes)]
DerivedSlot(i) ==
    LET currentStartMinutes == FirstDerivedStart + (i - 1) * SlotMinutes
    IN  [start |-> FormatTime(currentStartMinutes),
         end   |-> FormatTime(currentStartMinutes + SlotMinutes)]

\* the mutation of initialSlots that derives one slot fewer
initialSlots_OneFewer(count) ==
    [k \in 1..(count - 1) |-> IF k = 1 THEN DefaultFirstSlot ELSE DerivedSlot(k - 1)]

initialSlots(count) ==
    [k \in 1..count |-> IF k = 1 THEN DefaultFirstSlot ELSE DerivedSlot(k - 1)]

\* the end handleStartTimeChange computes for a new start
NewEnd_HourLater(newStart) ==
    LET hm == split(newStart, ":")
    IN  FormatTime(Number(hm[1]) * 60 + Number(hm[2]) + 60)
NewEnd(newStart) ==
    LET hm == split(newStart, ":")
        h == Number(hm[1])
        m == IF Len(hm) >= 2 THEN Number(hm[2]) ELSE NaN
        startMins == IF h = NaN \/ m = NaN THEN NaN ELSE h * 60 + m
        endMins == IF startMins = NaN THEN NaN ELSE startMins + SlotMinutes
    IN  FormatTime(endMins)

\* newSlots of handleStartTimeChange(index, newStart), index 0-based:
\* a copy of the list with the element at index replaced (an index at or
\* beyond the length extends the array; the holes are left undefined)
SlotsAfterChange(slots, index, newStart) ==
    [k \in 1..(IF index + 1 > Len(slots) THEN index + 1 ELSE Len(slots)) |->
        IF k = index + 1 THEN [start |-> newStart, end |-> NewEnd(newStart)]
        ELSE IF k <= Len(slots) THEN slots[k]
        ELSE Undefined]

\* the start-time select of slot index is disabled for index 0
SelectEnabled_All(index) == TRUE
SelectEnabled(index) == index # 0

(***************************************************************************)
(* extractDateLabel and the final messages (App.tsx)                       *)
(***************************************************************************)
\* the last index of the run of letters that starts at k; k - 1 when s[k] is no letter
LetterRunEnd(s, k) ==
    LET stops == { j \in k..Len(s) : ~IsLetter(s[j]) }
    IN  IF k > Len(s) THEN k - 1 ELSE IF stops = {} THEN Len(s) ELSE Min(stops) - 1

SpaceRunEnd(s, k) ==
    LET stops == { j \in k..Len(s) : ~IsSpace(s[j]) }
    IN  IF k > Len(s) THEN k - 1 ELSE IF stops = {} THEN Len(s) ELSE Min(stops) - 1

DigitRunEnd(s, k) ==
    LET stops == { j \in k..Len(s) : ~IsDigit(s[j]) }
    IN  IF k > Len(s) THEN k - 1 ELSE IF stops = {} THEN Len(s) ELSE Min(stops) - 1

\* /([A-Za-z]+day,?\s+[A-Za-z]+\s+\d+)/i matched at position p: the index of
\* the last character matched, 0 when there is no match at p. "day" must end
\* the run of letters, since a comma or white space has to follow it.
DateMatchEnd(s, p) ==
    LET e  == LetterRunEnd(s, p)
        c  == IF e + 1 <= Len(s) /\ s[e + 1] = "," THEN e + 2 ELSE e + 1
        w1 == SpaceRunEnd(s, c)
        l2 == LetterRunEnd(s, w1 + 1)
        w2 == SpaceRunEnd(s, l2 + 1)
        d  == DigitRunEnd(s, w2 + 1)
    IN  IF /\ e - p + 1 >= 4
           /\ toLowerCase(SubSeq(s, e - 2, e)) = <<"d","a","y">>
           /\ w1 >= c
           /\ l2 >= w1 + 1
           /\ w2 >= l2 + 1
           /\ d >= w2 + 1
        THEN d ELSE 0

\* the leftmost match: <<first, last>>, or <<>> when the line has none
DateMatch(s) ==
    LET starts == { p \in 1..Len(s) : DateMatchEnd(s, p) > 0 }
    IN  IF starts = {} THEN <<>> ELSE <<Min(starts), DateMatchEnd(s, Min(starts))>>

\* new Date().toLocaleDateString('en-GB', {weekday, day, month}): what the
\* calendar and the runtime's locale data give on the day of the call
TodayLabels ==
    { <<"T","u","e","s","d","a","y",","," ","3"," ","N","o","v">>,
      <<"T","u","e","s","d","a","y"," ","3"," ","N","o","v">> }

extractDateLabel(md, today) ==
    LET firstLine == split(trim(md), "\n")[1]
        match == DateMatch(firstLine)
    IN  IF match # <<>> THEN SubSeq(firstLine, match[1], match[2]) ELSE today

Placeholder == <<"{","{","T","I","M","E","_","S","L","O","T","}","}">>
TimeMarker == <<"[","T","I","M","E","]">>

\* s.indexOf(pat) + 1: the first position where pat occurs in s, 0 when it does not
FirstMatch(s, pat) ==
    LET hits == { k \in 1..(Len(s) + 1) : MatchesAt(s, pat, k) }
    IN  IF hits = {} THEN 0 ELSE Min(hits)

\* msg.replace(pat, rep) with a string pattern: the first occurrence only
replace(msg, pat, rep) ==
    LET k == FirstMatch(msg, pat)
    IN  IF k = 0 THEN msg
        ELSE SubSeq(msg, 1, k - 1) \o rep \o SubSeq(msg, k + Len(pat), Len(msg))

\* the mutation of TimeString that takes the first slot for every message
TimeString_FirstSlot(slots, index) ==
    IF 1 <= Len(slots) /\ slots[1] \notin {Undefined, Null}
    THEN slots[1].start \o <<" ","-"," ">> \o slots[1].end
    ELSE TimeMarker

\* slot ? `${slot.start} - ${slot.end}` : '[TIME]' for the slot at a 0-based index
TimeString(slots, index) ==
    IF index + 1 <= Len(slots) /\ slots[index + 1] \notin {Undefined, Null}
    THEN slots[index + 1].start \o <<" ","-"," ">> \o slots[index + 1].end
    ELSE TimeMarker

finalMessages(notifications, slots) ==
    [k \in 1..Len(notifications) |->
        replace(notifications[k], Placeholder, TimeString(slots, k - 1))]

\* what JSON.parse reads back from JSON.stringify of an array: holes become null
JsonArray(a) == [k \in 1..Len(a) |-> IF a[k] = Undefined THEN Null ELSE a[k]]

WorksheetKey(id) == <<"worksheet_", id>>
MessagesKey(id) == <<"messages_", id>>

\* localStorage.setItem(key, value)
SetItem(store, key, value) ==
    [k \in DOMAIN store \cup {key} |-> IF k = key THEN value ELSE store[k]]

\* localStorage.getItem(key): Null when nothing is stored under the key
GetItem(store, key) == IF key \in DOMAIN store THEN store[key] ELSE Null

(***************************************************************************)
(* The application: extraction, review, save (App.tsx, TimeSlotManager.tsx)*)
(***************************************************************************)
MaxJobs == 3
MaxExtractions == 1

TitleLine == <<"T","h","u","r","s","d","a","y",","," ","N","o","v"," ","1","3">>

\* what the extraction service may answer: a table and the notifications,
\* whose number need not be the number of table rows
ReviewTables ==
    { Join(<<TitleLine, Bracketed(Cells9), Bracketed(Cells9b)>>, <<"\n">>) }

Template == <<"H","i"," ">> \o Placeholder

ExtractionResults ==
    { [dataTable |-> t, notifications |-> [k \in 1..n |-> Template]] :
        t \in ReviewTables, n \in 0..MaxJobs }

\* the starts a user picks in the review: the first and the last option
StartChoices == { FormatTime(FirstOption), FormatTime(LastOption) }

Views == {"tomorrow", "worksheets_list"}

\* <TimeSlotManager> is rendered
ManagerMounted(view, stg, data) == view = "tomorrow" /\ stg = "review" /\ data # Null

\* React runs the effect after the commit that mounts the component and after
\* every commit in which one of [jobCount, onTimeSlotsChange, timeSlots.length] changed
EffectDue(wasMounted, oldCount, oldLen, isMounted, newCount, newLen) ==
    isMounted /\ (~wasMounted \/ oldCount # newCount \/ oldLen # newLen)

Mounted == ManagerMounted(activeView, stage, processedData)

NoEdits == [i \in {} |-> <<>>]

AppInit ==
    /\ activeView = "tomorrow"
    /\ stage = "input"
    /\ imageFiles = 0
    /\ timeSlots = <<>>
    /\ isProcessing = FALSE
    /\ error = NoMessage
    /\ processedData = Null
    /\ jobCount = 0
    /\ localStorage = [k \in {} |-> Null]
    /\ now = 0
    /\ pcProcess = "idle"
    /\ effectPending = FALSE
    /\ edited = NoEdits
    /\ derivations = 0
    /\ rerunAfterEdit = FALSE

ReviseIdle ==
    /\ pcRevise = "idle"
    /\ revised = Null

NoComments == [i \in {} |-> <<>>]

ViewIdle ==
    /\ pcView = "closed"
    /\ worksheet = Null
    /\ comments = NoComments
    /\ cardComment = <<>>
    /\ timers = {}
    /\ updates = 0
    /\ lastUpdate = Null
    /\ worksheetId = 0
    /\ cardFrom = <<>>

\* a geocode call that has not been made
NoLookup == [st |-> "none", query |-> <<>>, value |-> Null, turn |-> 0]

TravelIdle ==
    /\ origin = <<>>
    /\ destination = <<>>
    /\ pcEstimate = "idle"
    /\ lookup = [o |-> NoLookup, d |-> NoLookup]
    /\ sent = <<>>
    /\ routeData = Null
    /\ estimate = Null

ConnIdle ==
    /\ shown = FALSE
    /\ route = Null
    /\ loading = TRUE
    /\ fetchDue = FALSE
    /\ requests = <<>>
    /\ lastSettle = Null

\* { isOpen: false, id: null }
ModalClosed == [isOpen |-> FALSE, id |-> Null]

\* searchResult null
NoResult == [kind |-> "null", job |-> 0]

SearchIdle ==
    /\ searchStatus = "idle"
    /\ searchResult = NoResult
    /\ currentJobId = 0
    /\ searches = 0
    /\ pendingSearch = {}
    /\ pollsInFlight = {}

ListIdle ==
    /\ worksheets = <<>>
    /\ messageGroups = <<>>
    /\ deleteModal = ModalClosed
    /\ lastDelete = Null

ParseIdle ==
    /\ markdown = <<>>
    /\ pcParse = "idle"
    /\ jobs = <<>>
    /\ jobSrc = <<>>

\* handleImagesSelected
HandleImagesSelected(n) ==
    /\ activeView = "tomorrow" /\ stage = "input"
    /\ imageFiles' = n
    /\ UNCHANGED <<activeView, stage, timeSlots, isProcessing, error, processedData,
                   jobCount, localStorage, now, pcProcess, effectPending, edited,
                   derivations, rerunAfterEdit>>

\* handleProcessImages up to its await; the button is disabled while
\* processing and while no image is selected
ProcessStart ==
    /\ activeView = "tomorrow" /\ stage = "input"
    /\ ~isProcessing /\ imageFiles # 0
    /\ now < MaxExtractions
    /\ isProcessing' = TRUE
    /\ error' = NoMessage
    /\ processedData' = Null
    /\ pcProcess' = "awaiting"
    /\ UNCHANGED <<activeView, stage, imageFiles, timeSlots, jobCount, localStorage,
                   now, effectPending, edited, derivations, rerunAfterEdit>>

\* handleProcessImages after processFieldDataFromImages resolved
ProcessOk(result) ==
    /\ pcProcess = "awaiting"
    /\ processedData' = result
    /\ jobCount' = Len(result.notifications)
    /\ stage' = "review"
    /\ isProcessing' = FALSE
    /\ pcProcess' = "idle"
    /\ now' = now + 1
    /\ effectPending' = EffectDue(Mounted, jobCount, Len(timeSlots),
                                  ManagerMounted(activeView, "review", result),
                                  Len(result.notifications), Len(timeSlots))
    /\ edited' = NoEdits
    /\ derivations' = 0
    /\ rerunAfterEdit' = FALSE
    /\ UNCHANGED <<activeView, imageFiles, timeSlots, error, localStorage>>

\* handleProcessImages after the file reading or the extraction rejected
ProcessFail ==
    /\ pcProcess = "awaiting"
    /\ error' = "An error occurred while processing the images."
    /\ isProcessing' = FALSE
    /\ pcProcess' = "idle"
    /\ now' = now + 1
    /\ UNCHANGED <<activeView, stage, imageFiles, timeSlots, processedData, jobCount,
                   localStorage, effectPending, edited, derivations, rerunAfterEdit>>

\* handleNavigate to a view that is no single worksheet
Navigate(view) ==
    /\ ~effectPending
    /\ view # activeView
    /\ activeView' = view
    /\ effectPending' = EffectDue(Mounted, jobCount, Len(timeSlots),
                                  ManagerMounted(view, stage, processedData),
                                  jobCount, Len(timeSlots))
    /\ UNCHANGED <<stage, imageFiles, timeSlots, isProcessing, error, processedData,
                   jobCount, localStorage, now, pcProcess, edited, derivations,
                   rerunAfterEdit>>

\* the effect of TimeSlotManager that derives the initial slots
TimeSlotEffect ==
    /\ effectPending
    /\ Mounted
    /\ IF ShouldDerive(jobCount, timeSlots)
       THEN /\ timeSlots' = initialSlots(jobCount)
            /\ derivations' = derivations + 1
       ELSE UNCHANGED <<timeSlots, derivations>>
    /\ effectPending' = (Len(timeSlots') # Len(timeSlots))
    /\ rerunAfterEdit' = (rerunAfterEdit \/ edited # NoEdits)
    /\ UNCHANGED <<activeView, stage, imageFiles, isProcessing, error, processedData,
                   jobCount, localStorage, now, pcProcess, edited>>

\* handleStartTimeChange, called by the start-time select of slot index
HandleStartTimeChange(index, newStart) ==
    /\ Mounted /\ ~effectPending
    /\ index \in 0..(Len(timeSlots) - 1)
    /\ SelectEnabled(index)
    /\ timeSlots' = SlotsAfterChange(timeSlots, index, newStart)
    /\ edited' = [i \in DOMAIN edited \cup {index} |->
                     IF i = index THEN newStart ELSE edited[i]]
    /\ effectPending' = (Len(timeSlots') # Len(timeSlots))
    /\ rerunAfterEdit' = FALSE
    /\ UNCHANGED <<activeView, stage, imageFiles, isProcessing, error, processedData,
                   jobCount, localStorage, now, pcProcess, derivations>>

\* what JSON.parse reads back from JSON.stringify of a worksheet record
JsonWorksheet(w) ==
    [w EXCEPT !.timeSlots = JsonArray(@), !.jobs = JsonArray(@)]

worksheetPayload(data, slots, today, time) ==
    [ dateLabel |-> extractDateLabel(data.dataTable, today),
      date      |-> time,
      createdAt |-> time,
      timeSlots |-> slots,
      jobs      |-> parseMarkdownTable(data.dataTable),
      comments  |-> NoComments ]

messagesPayload(data, slots, today, time) ==
    [ dateLabel |-> extractDateLabel(data.dataTable, today),
      date      |-> time,
      createdAt |-> time,
      messages  |-> finalMessages(data.notifications, slots) ]

\* the two entries handleSaveWorksheet writes under the id Date.now()
SavedEntries(store, data, slots, today, time) ==
    SetItem(SetItem(store, WorksheetKey(time),
                    JsonWorksheet(worksheetPayload(data, slots, today, time))),
            MessagesKey(time), messagesPayload(data, slots, today, time))

\* handleSaveWorksheet
HandleSaveWorksheet(today) ==
    /\ Mounted /\ ~effectPending
    /\ processedData # Null
    /\ localStorage' = SavedEntries(localStorage, processedData, timeSlots, today, now)
    /\ stage' = "saved"
    /\ effectPending' = FALSE
    /\ UNCHANGED <<activeView, imageFiles, timeSlots, isProcessing, error,
                   processedData, jobCount, now, pcProcess, edited, derivations,
                   rerunAfterEdit>>

\* the mutation of HandleStartNew that keeps the slots and the job count
HandleStartNew_SlotsKept ==
    /\ activeView = "tomorrow" /\ stage = "saved"
    /\ stage' = "input"
    /\ imageFiles' = 0
    /\ processedData' = Null
    /\ edited' = NoEdits
    /\ derivations' = 0
    /\ rerunAfterEdit' = FALSE
    /\ UNCHANGED <<activeView, isProcessing, error, localStorage, now, pcProcess,
                   effectPending, timeSlots, jobCount>>

\* handleStartNew
HandleStartNew ==
    /\ activeView = "tomorrow" /\ stage = "saved"
    /\ stage' = "input"
    /\ imageFiles' = 0
    /\ timeSlots' = <<>>
    /\ processedData' = Null
    /\ jobCount' = 0
    /\ edited' = NoEdits
    /\ derivations' = 0
    /\ rerunAfterEdit' = FALSE
    /\ UNCHANGED <<activeView, isProcessing, error, localStorage, now, pcProcess,
                   effectPending>>

ReviewInit == AppInit /\ ParseIdle /\ ReviseIdle /\ ViewIdle /\ TravelIdle /\ ConnIdle /\ ListIdle /\ SearchIdle

ReviewNext ==
    \/ \E n \in 0..1 : HandleImagesSelected(n) /\ UNCHANGED <<parseVars, reviseVars, viewVars, travelVars, connVars, listVars, searchVars>>
    \/ ProcessStart /\ UNCHANGED <<parseVars, reviseVars, viewVars, travelVars, connVars, listVars, searchVars>>
    \/ \E r \in ExtractionResults : ProcessOk(r) /\ UNCHANGED <<parseVars, reviseVars, viewVars, travelVars, connVars, listVars, searchVars>>
    \/ ProcessFail /\ UNCHANGED <<parseVars, reviseVars, viewVars, travelVars, connVars, listVars, searchVars>>
    \/ \E v \in Views : Navigate(v) /\ UNCHANGED <<parseVars, reviseVars, viewVars, travelVars, connVars, listVars, searchVars>>
    \/ TimeSlotEffect /\ UNCHANGED <<parseVars, reviseVars, viewVars, travelVars, connVars, listVars, searchVars>>
    \/ \E i \in 0..(MaxJobs + 1), s \in StartChoices :
          HandleStartTimeChange(i, s) /\ UNCHANGED <<parseVars, reviseVars, viewVars, travelVars, connVars, listVars, searchVars>>
    \/ \E today \in TodayLabels : HandleSaveWorksheet(today) /\ UNCHANGED <<parseVars, reviseVars, viewVars, travelVars, connVars, listVars, searchVars>>
    \/ HandleStartNew /\ UNCHANGED <<parseVars, reviseVars, viewVars, travelVars, connVars, listVars, searchVars>>

SpecReview == ReviewInit /\ [][ReviewNext]_vars

(***************************************************************************)
(* handleStartTimeChange applied to one slot list                          *)
(***************************************************************************)
\* the slot lists a review can hold: the derived lists, as they are and
\* with one slot after the first set to a start the user picked
ReviewSlotLists ==
    { initialSlots(n) : n \in 1..MaxJobs } \cup
    { SlotsAfterChange(initialSlots(n), k, c) :
        n \in 1..MaxJobs, k \in 1..(MaxJobs - 1), c \in StartChoices }

ReviseInit ==
    /\ activeView = "tomorrow"
    /\ stage = "review"
    /\ imageFiles = 0
    /\ timeSlots \in { l \in ReviewSlotLists : \A k \in 1..Len(l) : l[k] # Undefined }
    /\ isProcessing = FALSE
    /\ error = NoMessage
    /\ processedData = Null
    /\ jobCount = Len(timeSlots)
    /\ localStorage = [k \in {} |-> Null]
    /\ now = 0
    /\ pcProcess = "idle"
    /\ effectPending = FALSE
    /\ edited = NoEdits
    /\ derivations = 0
    /\ rerunAfterEdit = FALSE
    /\ pcRevise = "start"
    /\ revised = Null
    /\ ParseIdle
    /\ ViewIdle
    /\ TravelIdle
    /\ ConnIdle
    /\ ListIdle
    /\ SearchIdle

\* one call handleStartTimeChange(index, newStart), for any index of the list
Revise(index, newStart) ==
    /\ pcRevise = "start"
    /\ index \in 0..(Len(timeSlots) - 1)
    /\ timeSlots' = SlotsAfterChange(timeSlots, index, newStart)
    /\ revised' = [index |-> index, start |-> newStart, before |-> timeSlots]
    /\ pcRevise' = "done"
    /\ UNCHANGED <<parseVars, activeView, stage, imageFiles, isProcessing, error,
                   processedData, jobCount, localStorage, now, pcProcess,
                   effectPending, edited, derivations, rerunAfterEdit, viewVars,
                   travelVars, connVars, listVars, searchVars>>

ReviseNext == \E i \in 0..(MaxJobs - 1), s \in timeOptions : Revise(i, s)

SpecRevise == ReviseInit /\ [][ReviseNext]_vars

(***************************************************************************)
(* Viewing a saved worksheet (WorksheetView, JobCard)                      *)
(***************************************************************************)
\* the id of the worksheet that is viewed
ViewedId == 1

\* how many job updates a viewing session holds
MaxUpdates == 2

\* the texts a user types into a card's comment box
CommentTexts == { <<>>, <<"o","k">> }

\* the text a user types into the fault field of a card in edit mode
EditedFault == <<"l","e","a","k">>

\* comments[index] || ''
savedComment(cs, index) == IF index \in DOMAIN cs THEN cs[index] ELSE <<>>

\* the time a card is given: the slot's window when there is a slot at the
\* position, the job's own time otherwise
CardTime(w, index) ==
    IF index + 1 <= Len(w.timeSlots) /\ w.timeSlots[index + 1] # Null
    THEN w.timeSlots[index + 1].start \o <<" ","-"," ">> \o w.timeSlots[index + 1].end
    ELSE w.jobs[index + 1].time

\* a card's editValues: its props, with or without an edit of the fault field
EditValues(w, index) ==
    LET props == [w.jobs[index + 1] EXCEPT !.time = CardTime(w, index)]
    IN  { props, [props EXCEPT !.fault = EditedFault] }

\* the indices of the rendered cards
Cards(w) == IF w = Null THEN {} ELSE 0..(Len(w.jobs) - 1)

\* the worksheets a review can have saved: the table's jobs with the slots
\* derived for the number of notifications
SavedStores ==
    { SavedEntries([k \in {} |-> Null], r, initialSlots(Len(r.notifications)),
                   today, ViewedId) :
        r \in { x \in ExtractionResults : Len(x.notifications) > 0 },
        today \in TodayLabels }

ViewInit ==
    /\ activeView = "worksheets_list"
    /\ stage = "saved"
    /\ imageFiles = 1
    /\ localStorage \in SavedStores
    /\ timeSlots = localStorage[WorksheetKey(ViewedId)].timeSlots
    /\ isProcessing = FALSE
    /\ error = NoMessage
    /\ processedData \in { r \in ExtractionResults :
                             Len(r.notifications) = Len(timeSlots) }
    /\ jobCount = Len(timeSlots)
    /\ now = ViewedId
    /\ pcProcess = "idle"
    /\ effectPending = FALSE
    /\ edited = NoEdits
    /\ derivations = 1
    /\ rerunAfterEdit = FALSE
    /\ ParseIdle
    /\ ReviseIdle
    /\ ViewIdle
    /\ TravelIdle
    /\ ConnIdle
    /\ ListIdle
    /\ SearchIdle

\* the worksheet is selected in the list: WorksheetView mounts
OpenWorksheet ==
    /\ pcView = "closed"
    /\ activeView = "worksheets_list"
    /\ activeView' = "worksheet_"
    /\ pcView' = "loading"
    /\ worksheetId' = ViewedId
    /\ lastUpdate' = Null
    /\ UNCHANGED <<worksheet, comments, cardComment, timers, updates, localStorage,
                   cardFrom>>

\* the load effect; the cards mount with it, each with its saved comment and
\* its debounce timer started
LoadEffect ==
    /\ pcView = "loading"
    /\ LET saved == GetItem(localStorage, WorksheetKey(worksheetId))
       IN  IF saved # Null
           THEN /\ worksheet' = saved
                /\ comments' = saved.comments
                /\ cardComment' = [k \in 1..Len(saved.jobs) |->
                                      savedComment(saved.comments, k - 1)]
                /\ cardFrom' = [k \in 1..Len(saved.jobs) |-> worksheetId]
                /\ timers' = Cards(saved)
           ELSE UNCHANGED <<worksheet, comments, cardComment, cardFrom, timers>>
    /\ pcView' = "open"
    /\ lastUpdate' = Null
    /\ UNCHANGED <<activeView, updates, localStorage, worksheetId>>

\* the mutation of TypeComment whose edit cancels the debounce and starts none
TypeComment_NoRestart(index, text) ==
    /\ pcView = "open"
    /\ index \in Cards(worksheet)
    /\ cardComment[index + 1] # text
    /\ cardComment' = [cardComment EXCEPT ![index + 1] = text]
    /\ cardFrom' = [cardFrom EXCEPT ![index + 1] = worksheetId]
    /\ timers' = timers \ {index}
    /\ lastUpdate' = Null
    /\ UNCHANGED <<activeView, pcView, worksheet, comments, updates, localStorage,
                   worksheetId>>

\* the user changes the text of a card's comment box: the debounce restarts
TypeComment(index, text) ==
    /\ pcView = "open"
    /\ index \in Cards(worksheet)
    /\ cardComment[index + 1] # text
    /\ cardComment' = [cardComment EXCEPT ![index + 1] = text]
    /\ cardFrom' = [cardFrom EXCEPT ![index + 1] = worksheetId]
    /\ timers' = timers \cup {index}
    /\ lastUpdate' = Null
    /\ UNCHANGED <<activeView, pcView, worksheet, comments, updates, localStorage,
                   worksheetId>>

\* handleCommentChange(index, comment), called when a card's debounce expires
HandleCommentChange(index) ==
    /\ pcView = "open"
    /\ index \in timers
    /\ LET updated == [k \in DOMAIN comments \cup {index} |->
                          IF k = index THEN cardComment[index + 1] ELSE comments[k]]
       IN  /\ comments' = updated
           /\ IF worksheet # Null
              THEN localStorage' =
                      SetItem(localStorage, WorksheetKey(worksheetId),
                              JsonWorksheet([worksheet EXCEPT !.comments = updated]))
              ELSE UNCHANGED localStorage
    /\ timers' = timers \ {index}
    /\ lastUpdate' = Null
    /\ UNCHANGED <<activeView, pcView, worksheet, cardComment, updates, worksheetId,
                   cardFrom>>

\* newJobs of handleUpdateJob: a copy of the jobs with the element at the
\* 0-based index replaced.  An index at or beyond the length extends the array
\* and leaves holes; a negative index sets a property that is no element of
\* the array, which neither JSON.stringify nor map sees.
JobsAfterUpdate(jobList, index, updatedJob) ==
    IF index < 0 THEN jobList
    ELSE [k \in 1..(IF index + 1 > Len(jobList) THEN index + 1 ELSE Len(jobList)) |->
             IF k = index + 1 THEN updatedJob
             ELSE IF k <= Len(jobList) THEN jobList[k]
             ELSE Undefined]

\* handleUpdateJob(index, updatedJob), called when a card's edit is saved; the
\* new worksheet state gives handleCommentChange a new identity, so that every
\* card restarts its debounce
HandleUpdateJob(index, updatedJob) ==
    /\ pcView = "open"
    /\ worksheet # Null
    /\ updates < MaxUpdates
    /\ updates' = updates + 1
    /\ LET newJobs == JobsAfterUpdate(worksheet.jobs, index, updatedJob)
           updatedWorksheet == [worksheet EXCEPT !.jobs = newJobs]
           after == SetItem(localStorage, WorksheetKey(worksheetId),
                            JsonWorksheet(updatedWorksheet))
       IN  /\ worksheet' = updatedWorksheet
           /\ localStorage' = after
           /\ lastUpdate' = [ index  |-> index,
                              job    |-> updatedJob,
                              outcome |-> "returned",
                              before |-> localStorage[WorksheetKey(worksheetId)],
                              after  |-> after[WorksheetKey(worksheetId)] ]
           /\ timers' = { k \in Cards(updatedWorksheet) : newJobs[k + 1] # Undefined }
    /\ UNCHANGED <<activeView, pcView, comments, cardComment, worksheetId, cardFrom>>

\* onBack: WorksheetView unmounts, the cards' timers are cleared
Back ==
    /\ pcView \in {"loading", "open"}
    /\ activeView' = "worksheets_list"
    /\ pcView' = "closed"
    /\ worksheet' = Null
    /\ comments' = NoComments
    /\ cardComment' = <<>>
    /\ timers' = {}
    /\ updates' = 0
    /\ lastUpdate' = Null
    /\ worksheetId' = 0
    /\ cardFrom' = <<>>
    /\ UNCHANGED localStorage

ViewFrame ==
    UNCHANGED <<parseVars, reviseVars, travelVars, connVars, listVars, searchVars, stage, imageFiles, timeSlots, isProcessing,
                error, processedData, jobCount, now, pcProcess, effectPending,
                edited, derivations, rerunAfterEdit>>

ViewNext ==
    \/ OpenWorksheet /\ ViewFrame
    \/ LoadEffect /\ ViewFrame
    \/ \E i \in 0..(MaxJobs - 1), t \in CommentTexts : TypeComment(i, t) /\ ViewFrame
    \/ \E i \in 0..(MaxJobs - 1) : HandleCommentChange(i) /\ ViewFrame
    \/ \E i \in 0..(MaxJobs - 1) :
          \E x \in (IF worksheet # Null /\ i \in Cards(worksheet)
                    THEN EditValues(worksheet, i) ELSE {}) :
              HandleUpdateJob(i, x) /\ ViewFrame
    \/ Back /\ ViewFrame

SpecView == ViewInit /\ [][ViewNext]_vars

\* a debounce timer that is not cleared expires: the browser runs the callback
\* of every pending setTimeout, card by card
DebounceExpires(i) == HandleCommentChange(i) /\ ViewFrame

\* how many job updates a run with expiring timers makes
MaxLiveUpdates == 1

\* one worksheet of two jobs is stored
LiveInit ==
    /\ ViewInit
    /\ jobCount = 2
    /\ localStorage[WorksheetKey(ViewedId)].dateLabel = TitleLine

LiveNext ==
    \/ OpenWorksheet /\ ViewFrame
    \/ LoadEffect /\ ViewFrame
    \/ \E i \in 0..(MaxJobs - 1), t \in CommentTexts : TypeComment(i, t) /\ ViewFrame
    \/ \E i \in 0..(MaxJobs - 1) : DebounceExpires(i)
    \/ \E i \in 0..(MaxJobs - 1) :
          \E x \in (IF worksheet # Null /\ i \in Cards(worksheet)
                    THEN EditValues(worksheet, i) ELSE {}) :
              updates < MaxLiveUpdates /\ HandleUpdateJob(i, x) /\ ViewFrame
    \/ Back /\ ViewFrame

SpecViewLive ==
    /\ LiveInit /\ [][LiveNext]_vars
    /\ \A i \in 0..(MaxJobs - 1) : WF_vars(DebounceExpires(i))

(***************************************************************************)
(* The travel estimate (routingService: estimateTravelTime, geocode)       *)
(***************************************************************************)
\* a UTF-16 code unit of the surrogate range with no partner, as one character
LoneSurrogate == "\\uD800"

RECURSIVE Concat(_)
\* the pieces joined to one string
Concat(pieces) ==
    IF pieces = <<>> THEN <<>> ELSE Head(pieces) \o Concat(Tail(pieces))

\* s.replace(/ch/g, rep) for a one-character pattern
replaceAll(s, ch, rep) ==
    Concat([k \in 1..Len(s) |-> IF s[k] = ch THEN rep ELSE <<s[k]>>])

\* s.replace(/\s+/g, ' ')
collapseSpaces(s) ==
    Concat([k \in 1..Len(s) |->
              IF ~IsSpace(s[k]) THEN <<s[k]>>
              ELSE IF k > 1 /\ IsSpace(s[k - 1]) THEN <<>>
              ELSE <<" ">>])

\* the characters encodeURIComponent leaves as they are
Unreserved(c) ==
    IsLetter(c) \/ IsDigit(c) \/ c \in {"-", "_", ".", "!", "~", "*", "'", "(", ")"}

\* the escape of a character of the ASCII range that is not left as it is
PercentCode(c) ==
    CASE c = " "  -> <<"%","2","0">>
      [] c = ","  -> <<"%","2","C">>
      [] c = "|"  -> <<"%","7","C">>
      [] c = "\n" -> <<"%","0","A">>
      [] c = ":"  -> <<"%","3","A">>
      [] OTHER    -> <<"%","3","F">>

\* encodeURIComponent throws URIError for a string with a lone surrogate
ThrowsURIError(s) == \E k \in 1..Len(s) : s[k] = LoneSurrogate

\* encodeURIComponent(s), for a string it does not throw for
encodeURIComponent(s) ==
    Concat([k \in 1..Len(s) |-> IF Unreserved(s[k]) THEN <<s[k]>> ELSE PercentCode(s[k])])

\* the character classes of UK_POSTCODE_REGEX, which is case-insensitive:
\* "L" [A-Za-z], "M" [A-Ha-hJ-Yj-y], "D" [0-9], "S" \s, any other: that letter
ClassHas(cls, c) ==
    CASE cls = "L" -> IsLetter(c)
      [] cls = "M" -> IsLetter(c) /\ UpperChar(c) \notin {"I", "Z"}
      [] cls = "D" -> IsDigit(c)
      [] cls = "S" -> IsSpace(c)
      [] OTHER     -> UpperChar(c) = cls

\* the outward alternatives in the order the regex tries them, a greedy
\* quantifier's longer reading first
OutwardPatterns ==
    << <<"L","D","D">>, <<"L","D">>,
       <<"L","M","D","D">>, <<"L","M","D">>,
       <<"L","D","L">>,
       <<"L","M","D","L">>, <<"L","M","D">> >>

\* every reading of the regex as a sequence of classes, in the order tried:
\* GIR 0AA first, then each outward part with and without the \s
PostcodePatterns ==
    << <<"G","I","R"," ","0","A","A">> >> \o
    Concat([k \in 1..Len(OutwardPatterns) |->
              << OutwardPatterns[k] \o <<"S","D","L","L">>,
                 OutwardPatterns[k] \o <<"D","L","L">> >>])

PatternAt(s, p, pat) ==
    /\ p + Len(pat) - 1 <= Len(s)
    /\ \A k \in 1..Len(pat) : ClassHas(pat[k], s[p + k - 1])

\* addr.match(UK_POSTCODE_REGEX): the leftmost match, <<>> when there is none
postcodeMatch(addr) ==
    LET starts == { p \in 1..Len(addr) :
                      \E n \in 1..Len(PostcodePatterns) :
                          PatternAt(addr, p, PostcodePatterns[n]) }
    IN  IF starts = {} THEN <<>>
        ELSE LET p == Min(starts)
                 n == Min({ m \in 1..Len(PostcodePatterns) :
                              PatternAt(addr, p, PostcodePatterns[m]) })
             IN  SubSeq(addr, p, p + Len(PostcodePatterns[n]) - 1)

cleanAddressForGeocode(addr) ==
    IF addr = <<>> \/ addr = TBD THEN <<>>
    ELSE IF postcodeMatch(addr) # <<>> THEN toUpperCase(postcodeMatch(addr))
    ELSE trim(collapseSpaces(replaceAll(replaceAll(addr, "\n", <<",", " ">>),
                                        "|", <<" ">>)))

cleanAddressForUrl(addr) ==
    IF addr = <<>> THEN <<>>
    ELSE trim(collapseSpaces(replaceAll(addr, "\n", <<",", " ">>)))

MapsUrlHead ==
    <<"h","t","t","p","s",":","/","/","w","w","w",".","g","o","o","g","l",
    "e",".","c","o","m","/","m","a","p","s","/","d","i","r","/","?","a",
    "p","i","=","1","&","o","r","i","g","i","n","=">>

MapsUrlMid == <<"&","d","e","s","t","i","n","a","t","i","o","n","=">>

\* getGoogleMapsUrl throws when one of the two encodings throws
MapsUrlThrows(o, d) ==
    ThrowsURIError(cleanAddressForUrl(o)) \/ ThrowsURIError(cleanAddressForUrl(d))

getGoogleMapsUrl(o, d) ==
    MapsUrlHead \o encodeURIComponent(cleanAddressForUrl(o))
                \o MapsUrlMid \o encodeURIComponent(cleanAddressForUrl(d))

\* !query || query.length < 3, for the encoded query of the address
QueryTooShort(address, query) == query = <<>> \/ Len(query) < 3

\* geocode(address) up to its first await: the call is over with null when
\* the encoding throws or the query is too short, and has sent its request
\* otherwise
GeocodeStart(address) ==
    LET clean == cleanAddressForGeocode(address)
    IN  IF ThrowsURIError(clean) THEN [NoLookup EXCEPT !.st = "done"]
        ELSE IF QueryTooShort(address, encodeURIComponent(clean))
             THEN [NoLookup EXCEPT !.st = "done", !.query = encodeURIComponent(clean)]
             ELSE [NoLookup EXCEPT !.st = "fetching", !.query = encodeURIComponent(clean)]

\* parseFloat of a coordinate text: the number its leading digits write
parseFloat(s) ==
    LET stops == { k \in 1..Len(s) : ~IsDigit(s[k]) }
        n == IF stops = {} THEN Len(s) ELSE Min(stops) - 1
    IN  IF n = 0 THEN NaN ELSE DigitsValue(SubSeq(s, 1, n), 0)

\* the answers of a fetch: it rejects, or it resolves with response.ok or not
FetchOutcomes == {"error", "notok", "ok"}

\* the places the geocoding service knows
Places == { [lat |-> <<"5","3">>, lon |-> <<"1">>],
            [lat |-> <<"5","1">>, lon |-> <<"0">>] }

\* the bodies of the geocoding service: no JSON, JSON null, a JSON object
\* that is no list, and a list of nothing, of one place, or of a null
GeocodeBodies ==
    { [kind |-> k, items |-> <<>>] : k \in {"unparseable", "null", "object", "list"} }
    \cup { [kind |-> "list", items |-> <<pl>>] : pl \in Places \cup {Null} }

\* what geocode returns for a body; data[0].lat of a null item throws inside
\* the try block, which makes the value null
GeocodeValue(body) ==
    IF body.kind = "list" /\ Len(body.items) > 0 /\ body.items[1] # Null
    THEN [lat |-> parseFloat(body.items[1].lat), lon |-> parseFloat(body.items[1].lon)]
    ELSE Null

\* the routes of the routing service: seconds and meters
ShortRoute == [duration |-> 90, distance |-> 3000]
LongRoute == [duration |-> 600, distance |-> 1609]
Routes == { LongRoute, ShortRoute }

\* the bodies of the routing service: no JSON, JSON null, an object without
\* routes, and an object with routes of nothing, of one route, or of a null
RouteBodies ==
    { [kind |-> k, routes |-> <<>>] : k \in {"unparseable", "null", "object", "routes"} }
    \cup { [kind |-> "routes", routes |-> <<r>>] : r \in Routes \cup {Null} }

\* Math.round(seconds / 60)
RoundedMinutes(seconds) == (seconds + 30) \div 60

\* (meters * 0.000621371).toFixed(1)
MilesToFixed1(meters) ==
    LET tenths == (meters * 621371 + 50000000) \div 100000000
    IN  String(tenths \div 10) \o <<".">> \o String(tenths % 10)

\* the RouteResult made of a route
RouteResultOf(first, url) ==
    [ durationText  |-> String(RoundedMinutes(first.duration)) \o <<" ","m","i","n","s">>,
      distanceText  |-> MilesToFixed1(first.distance) \o <<" ","m","i">>,
      googleMapsUrl |-> url ]

\* the mutation of BothResolved that goes on with one lookup resolved
BothResolved_Either(start, end) == start # Null \/ end # Null

\* the negation of !start || !end
BothResolved(start, end) == start # Null /\ end # Null

GeocodeRequest(side, query) == [svc |-> "geocode", side |-> side, arg |-> query]
RouteRequest(start, end) == [svc |-> "route", side |-> "both", arg |-> <<start, end>>]

\* the addresses an estimate is asked for
AddressChoices ==
    { <<>>,
      TBD,
      <<"a","b">>,
      <<"a",",">>,
      <<"L","e","e","d","s">>,
      <<"5"," ","R","d","\n","l","s","1"," ","4","a","p">>,
      <<"x", LoneSurrogate>> }

TravelInit ==
    /\ origin \in AddressChoices
    /\ destination \in AddressChoices
    /\ pcEstimate = "start"
    /\ lookup = [o |-> NoLookup, d |-> NoLookup]
    /\ sent = <<>>
    /\ routeData = Null
    /\ estimate = Null
    /\ AppInit
    /\ ParseIdle
    /\ ReviseIdle
    /\ ViewIdle
    /\ ConnIdle
    /\ ListIdle
    /\ SearchIdle

Sides == {"o", "d"}

\* how many of the two geocode calls were completed by the network
Turns == Cardinality({ sd \in Sides : lookup[sd].turn > 0 })

\* estimateTravelTime up to its first await
EstimateCall ==
    /\ pcEstimate = "start"
    /\ IF MapsUrlThrows(origin, destination)
       THEN /\ pcEstimate' = "rejected"
            /\ UNCHANGED <<lookup, sent>>
       ELSE IF origin = <<>> \/ destination = <<>>
       THEN /\ pcEstimate' = "resolved"
            /\ UNCHANGED <<lookup, sent>>
       ELSE LET start == GeocodeStart(origin)
                end == GeocodeStart(destination)
            IN  /\ lookup' = [o |-> start, d |-> end]
                /\ sent' = (IF start.st = "fetching"
                            THEN <<GeocodeRequest("o", start.query)>> ELSE <<>>)
                           \o (IF end.st = "fetching"
                               THEN <<GeocodeRequest("d", end.query)>> ELSE <<>>)
                /\ pcEstimate' = "lookups"
    /\ estimate' = Null
    /\ UNCHANGED <<origin, destination, routeData>>

\* a geocode call's fetch settles
GeocodeResponse(side, outcome) ==
    /\ pcEstimate = "lookups"
    /\ lookup[side].st = "fetching"
    /\ lookup' = [lookup EXCEPT ![side] =
                    IF outcome = "ok" THEN [@ EXCEPT !.st = "body"]
                    ELSE [@ EXCEPT !.st = "done", !.turn = Turns + 1]]
    /\ UNCHANGED <<origin, destination, pcEstimate, sent, routeData, estimate>>

\* a geocode call's response.json() settles
GeocodeBody(side, body) ==
    /\ pcEstimate = "lookups"
    /\ lookup[side].st = "body"
    /\ lookup' = [lookup EXCEPT ![side] =
                    [@ EXCEPT !.st = "done", !.value = GeocodeValue(body),
                              !.turn = Turns + 1]]
    /\ UNCHANGED <<origin, destination, pcEstimate, sent, routeData, estimate>>

\* Promise.all has both values: the routing request, or null
LookupsJoined ==
    /\ pcEstimate = "lookups"
    /\ \A sd \in Sides : lookup[sd].st = "done"
    /\ IF BothResolved(lookup.o.value, lookup.d.value)
       THEN /\ sent' = Append(sent, RouteRequest(lookup.o.value, lookup.d.value))
            /\ pcEstimate' = "routing"
       ELSE /\ pcEstimate' = "resolved"
            /\ UNCHANGED sent
    /\ estimate' = Null
    /\ UNCHANGED <<origin, destination, lookup, routeData>>

\* the routing fetch settles
RouteResponse(outcome) ==
    /\ pcEstimate = "routing"
    /\ pcEstimate' = IF outcome = "ok" THEN "routeBody" ELSE "resolved"
    /\ estimate' = Null
    /\ UNCHANGED <<origin, destination, lookup, sent, routeData>>

\* the routing response.json() settles
RouteBody(body) ==
    /\ pcEstimate = "routeBody"
    /\ pcEstimate' = "resolved"
    /\ IF body.kind = "routes" /\ Len(body.routes) > 0 /\ body.routes[1] # Null
       THEN /\ routeData' = body.routes[1]
            /\ estimate' = RouteResultOf(body.routes[1],
                                       getGoogleMapsUrl(origin, destination))
       ELSE /\ estimate' = Null
            /\ UNCHANGED routeData
    /\ UNCHANGED <<origin, destination, lookup, sent>>

TravelFrame == UNCHANGED <<parseVars, appVars, reviseVars, viewVars, connVars, listVars, searchVars>>

TravelNext ==
    \/ EstimateCall /\ TravelFrame
    \/ \E sd \in Sides, oc \in FetchOutcomes : GeocodeResponse(sd, oc) /\ TravelFrame
    \/ \E sd \in Sides, b \in GeocodeBodies : GeocodeBody(sd, b) /\ TravelFrame
    \/ LookupsJoined /\ TravelFrame
    \/ \E oc \in FetchOutcomes : RouteResponse(oc) /\ TravelFrame
    \/ \E b \in RouteBodies : RouteBody(b) /\ TravelFrame

SpecTravel == TravelInit /\ [][TravelNext]_vars

(***************************************************************************)
(* One TravelConnector and the estimates it asks for (TravelConnector.tsx) *)
(***************************************************************************)
\* how many estimates a connector asks for in a run
MaxRequests == 2

\* the addresses a connector is given
ConnectorAddresses ==
    { <<>>,
      <<"L","e","e","d","s">>,
      <<"5"," ","R","d","\n","l","s","1"," ","4","a","p">>,
      <<"x", LoneSurrogate>> }

\* the promise of estimateTravelTime rejected
Rejected == [rejected |-> TRUE]

\* what estimateTravelTime(o, d) can settle with: a rejection when the map
\* link cannot be built, else null, or the estimate of a route (one route
\* stands for all) when both addresses give a geocoding request
EstimateOutcomes(o, d) ==
    IF MapsUrlThrows(o, d) THEN { Rejected }
    ELSE { Null } \cup
         ( IF GeocodeStart(o).st = "fetching" /\ GeocodeStart(d).st = "fetching"
           THEN { RouteResultOf(LongRoute, getGoogleMapsUrl(o, d)) }
           ELSE {} )

\* the mutation of Applies that applies every result
Applies_Always(mounted) == TRUE

\* if (mounted): the result is applied while the effect run is not cleaned up
Applies(mounted) == mounted

\* the cleanup of every effect run: mounted = false
CleanedUp(reqs) == [k \in 1..Len(reqs) |-> [reqs[k] EXCEPT !.mounted = FALSE]]

ConnectorInit ==
    /\ origin \in ConnectorAddresses
    /\ destination \in ConnectorAddresses
    /\ pcEstimate = "idle"
    /\ lookup = [o |-> NoLookup, d |-> NoLookup]
    /\ sent = <<>>
    /\ routeData = Null
    /\ estimate = Null
    /\ shown = TRUE
    /\ route = Null
    /\ loading = TRUE
    /\ fetchDue = TRUE
    /\ requests = <<>>
    /\ lastSettle = Null
    /\ AppInit
    /\ ParseIdle
    /\ ReviseIdle
    /\ ViewIdle
    /\ ListIdle
    /\ SearchIdle

\* the effect: the cleanup of the run before it, then fetchRoute up to its await
FetchRouteEffect ==
    /\ shown /\ fetchDue
    /\ fetchDue' = FALSE
    /\ IF origin = <<>> \/ destination = <<>>
       THEN /\ loading' = FALSE
            /\ requests' = CleanedUp(requests)
       ELSE /\ loading' = TRUE
            /\ requests' = Append(CleanedUp(requests),
                                  [ origin |-> origin, destination |-> destination,
                                    mounted |-> TRUE, settled |-> FALSE ])
    /\ lastSettle' = Null
    /\ UNCHANGED <<origin, destination, shown, route>>

\* the parent renders the connector with other props
PropsChange(o, d) ==
    /\ shown /\ ~fetchDue
    /\ Len(requests) < MaxRequests
    /\ <<o, d>> # <<origin, destination>>
    /\ origin' = o
    /\ destination' = d
    /\ fetchDue' = TRUE
    /\ lastSettle' = Null
    /\ UNCHANGED <<shown, route, loading, requests>>

\* the connector unmounts: the cleanup runs
Unmount ==
    /\ shown
    /\ shown' = FALSE
    /\ fetchDue' = FALSE
    /\ requests' = CleanedUp(requests)
    /\ lastSettle' = Null
    /\ UNCHANGED <<origin, destination, route, loading>>

\* the estimate of an effect run settles: fetchRoute goes on after its await
EstimateSettles(k, outcome) ==
    /\ k \in 1..Len(requests)
    /\ ~requests[k].settled
    /\ requests' = [requests EXCEPT ![k].settled = TRUE]
    /\ IF outcome # Rejected /\ Applies(requests[k].mounted)
       THEN /\ route' = outcome
            /\ loading' = FALSE
       ELSE UNCHANGED <<route, loading>>
    /\ lastSettle' = [ request |-> requests[k], outcome |-> outcome,
                       route |-> route, loading |-> loading ]
    /\ UNCHANGED <<origin, destination, shown, fetchDue>>

ConnectorFrame ==
    UNCHANGED <<parseVars, appVars, reviseVars, viewVars, listVars, searchVars,
                pcEstimate, lookup, sent, routeData, estimate>>

ConnectorNext ==
    \/ FetchRouteEffect /\ ConnectorFrame
    \/ \E o \in ConnectorAddresses, d \in ConnectorAddresses :
          PropsChange(o, d) /\ ConnectorFrame
    \/ Unmount /\ ConnectorFrame
    \/ \E k \in { n \in 1..Len(requests) : ~requests[n].settled } :
          \E oc \in EstimateOutcomes(requests[k].origin, requests[k].destination) :
              EstimateSettles(k, oc) /\ ConnectorFrame

SpecConnector == ConnectorInit /\ [][ConnectorNext]_vars

(***************************************************************************)
(* handleSaveWorksheet applied to one review state                         *)
(***************************************************************************)
\* the notification templates of an extraction
Templates == { Template, <<"A","t"," ">> \o Placeholder \o <<".">> }

RECURSIVE TemplateSeqs(_)
\* the sequences of at most n templates
TemplateSeqs(n) ==
    IF n = 0 THEN { <<>> }
    ELSE LET shorter == TemplateSeqs(n - 1)
         IN  shorter \cup { Append(ts, t) : ts \in { x \in shorter : Len(x) = n - 1 },
                                              t \in Templates }

\* tables with a date on their first line, with none, with one on a later
\* line, and with one on the line after an empty first line
SaveTables ==
    ReviewTables \cup
    { Join(<<Bracketed(Cells9b), Bracketed(Cells9)>>, <<"\n">>),
      Join(<<Bracketed(Cells9), TitleLine>>, <<"\n">>),
      Join(<< <<>>, TitleLine, Bracketed(Cells9)>>, <<"\n">>) }

\* the slot lists a save can be given: none, and the lists of a review
SaveSlotLists ==
    { <<>> } \cup { l \in ReviewSlotLists : \A k \in 1..Len(l) : l[k] # Undefined }

SaveInit ==
    /\ activeView = "tomorrow"
    /\ stage = "review"
    /\ imageFiles = 1
    /\ timeSlots \in SaveSlotLists
    /\ isProcessing = FALSE
    /\ error = NoMessage
    /\ processedData \in { [dataTable |-> t, notifications |-> ns] :
                             t \in SaveTables, ns \in TemplateSeqs(MaxJobs) }
    /\ jobCount = Len(processedData.notifications)
    /\ localStorage = [k \in {} |-> Null]
    /\ now = 1
    /\ pcProcess = "idle"
    /\ effectPending = FALSE
    /\ edited = NoEdits
    /\ derivations = 0
    /\ rerunAfterEdit = FALSE
    /\ ParseIdle
    /\ ReviseIdle
    /\ ViewIdle
    /\ TravelIdle
    /\ ConnIdle
    /\ ListIdle
    /\ SearchIdle

SaveNext ==
    \E today \in TodayLabels :
        HandleSaveWorksheet(today)
            /\ UNCHANGED <<parseVars, reviseVars, viewVars, travelVars, connVars, listVars, searchVars>>

SpecSave == SaveInit /\ [][SaveNext]_vars

(***************************************************************************)
(* The slots of a review of any number of jobs                             *)
(***************************************************************************)
\* the largest number of notifications of an extraction in this development
MaxCount == 9

SlotsInit ==
    /\ activeView = "tomorrow"
    /\ stage = "review"
    /\ imageFiles = 1
    /\ timeSlots = <<>>
    /\ isProcessing = FALSE
    /\ error = NoMessage
    /\ jobCount \in 1..MaxCount
    /\ processedData \in { [dataTable |-> t, notifications |-> [k \in 1..jobCount |-> Template]] :
                             t \in ReviewTables }
    /\ localStorage = [k \in {} |-> Null]
    /\ now = 0
    /\ pcProcess = "idle"
    /\ effectPending = TRUE
    /\ edited = NoEdits
    /\ derivations = 0
    /\ rerunAfterEdit = FALSE
    /\ ParseIdle
    /\ ReviseIdle
    /\ ViewIdle
    /\ TravelIdle
    /\ ConnIdle
    /\ ListIdle
    /\ SearchIdle

\* the derivation, and one revision of one slot with any option of the select
SlotsNext ==
    /\ \/ TimeSlotEffect
       \/ \E i \in 1..(MaxCount - 1), s \in timeOptions :
              edited = NoEdits /\ HandleStartTimeChange(i, s)
    /\ UNCHANGED <<parseVars, reviseVars, viewVars, travelVars, connVars, listVars, searchVars>>

SpecSlots == SlotsInit /\ [][SlotsNext]_vars

(***************************************************************************)
(* handleUpdateJob applied to a loaded worksheet                           *)
(***************************************************************************)
\* the indices a call of handleUpdateJob is given: one before the first job,
\* the jobs' own, and up to two past the last
UpdateIndices == (0 - 1)..MaxJobs

UpdateInit ==
    /\ activeView = "worksheet_"
    /\ stage = "saved"
    /\ imageFiles = 1
    /\ localStorage \in SavedStores
    /\ timeSlots = localStorage[WorksheetKey(ViewedId)].timeSlots
    /\ isProcessing = FALSE
    /\ error = NoMessage
    /\ processedData \in { r \in ExtractionResults :
                             Len(r.notifications) = Len(timeSlots) }
    /\ jobCount = Len(timeSlots)
    /\ now = ViewedId
    /\ pcProcess = "idle"
    /\ effectPending = FALSE
    /\ edited = NoEdits
    /\ derivations = 1
    /\ rerunAfterEdit = FALSE
    /\ pcView = "open"
    /\ worksheet = GetItem(localStorage, WorksheetKey(ViewedId))
    /\ comments = worksheet.comments
    /\ cardComment = [k \in 1..Len(worksheet.jobs) |-> savedComment(comments, k - 1)]
    /\ timers = {}
    /\ updates = 0
    /\ lastUpdate = Null
    /\ worksheetId = ViewedId
    /\ cardFrom = [k \in 1..Len(worksheet.jobs) |-> ViewedId]
    /\ ParseIdle
    /\ ReviseIdle
    /\ TravelIdle
    /\ ConnIdle
    /\ ListIdle
    /\ SearchIdle

UpdateNext ==
    \E i \in UpdateIndices, x \in EditValues(worksheet, 0) :
        HandleUpdateJob(i, x) /\ ViewFrame

SpecUpdate == UpdateInit /\ [][UpdateNext]_vars

(***************************************************************************)
(* The lists of saved worksheets and message sets                          *)
(* (WorksheetList.tsx, MessagesList)                                       *)
(***************************************************************************)
\* how many ids the store holds entries under
MaxIds == 2

ListIds == 1..MaxIds

\* a stored text that JSON.parse rejects
CorruptText == [text |-> "{"]
\* the stored text "null", which JSON.parse reads as null
NullText == [text |-> "null"]
\* nothing stored under a key
Absent == [absent |-> TRUE]

\* the extraction whose save wrote the stored records
ListedResult ==
    [dataTable |-> Join(<<TitleLine, Bracketed(Cells9)>>, <<"\n">>),
     notifications |-> <<Template>>]
ListedToday == <<"T","u","e","s","d","a","y",","," ","3"," ","N","o","v">>

\* a record without one of its fields
Without(rec, f) == [g \in DOMAIN rec \ {f} |-> rec[g]]

\* the worksheet record handleSaveWorksheet wrote at the time id
SavedWorksheet(id) ==
    JsonWorksheet(worksheetPayload(ListedResult, initialSlots(1), ListedToday, id))
\* the message set it wrote with it
SavedMessageSet(id) == messagesPayload(ListedResult, initialSlots(1), ListedToday, id)

\* what can be stored under worksheet_<id>: a record of this version, a
\* record of an older version (no createdAt), a record with no date at all,
\* or a text that is no record
WorksheetValues(id) ==
    { SavedWorksheet(id),
      Without(SavedWorksheet(id), "createdAt"),
      [jobs |-> <<>>],
      CorruptText,
      NullText }

\* what can be stored under messages_<id>
MessageValues(id) ==
    { SavedMessageSet(id),
      Without(SavedMessageSet(id), "createdAt"),
      CorruptText }

Put(store, key, value) == IF value = Absent THEN store ELSE SetItem(store, key, value)

RECURSIVE StoresUpTo(_)
\* the stores with entries under the ids 1..n
StoresUpTo(n) ==
    IF n = 0 THEN { [k \in {} |-> Null] }
    ELSE { Put(Put(st, WorksheetKey(n), w), MessagesKey(n), ms) :
             st \in StoresUpTo(n - 1),
             w \in WorksheetValues(n) \cup {Absent},
             ms \in MessageValues(n) \cup {Absent} }

\* localStorage.removeItem(key)
RemoveItem(store, key) == [k \in DOMAIN store \ {key} |-> store[k]]

RECURSIVE RemoveItems(_, _)
RemoveItems(store, keys) ==
    IF keys = <<>> THEN store
    ELSE RemoveItems(RemoveItem(store, Head(keys)), Tail(keys))

\* the try block of a listing completes for the stored value: JSON.parse
\* accepts the text, and reading a property of the parsed value does not
\* throw (it does for null)
Summarized(value) == value # CorruptText /\ value # NullText

\* data.createdAt || data.date, undefined when the record has neither
CreatedAtOf(data) ==
    IF "createdAt" \in DOMAIN data THEN [iso |-> data.createdAt]
    ELSE IF "date" \in DOMAIN data THEN [iso |-> data.date]
    ELSE Undefined

\* data.date
DateOf(data) == IF "date" \in DOMAIN data THEN [iso |-> data.date] ELSE Undefined

\* data.dateLabel || data.date
DateLabelOf(data) == IF "dateLabel" \in DOMAIN data THEN data.dateLabel ELSE DateOf(data)

\* new Date(createdAt).getTime()
getTime(createdAt) == IF createdAt = Undefined THEN NaN ELSE createdAt.iso

\* the summary loadWorksheets pushes for a key and its parsed value
WorksheetSummary(id, data) ==
    [ id        |-> id,
      date      |-> DateOf(data),
      dateLabel |-> DateLabelOf(data),
      jobCount  |-> IF "jobs" \in DOMAIN data THEN Len(data.jobs) ELSE 0,
      createdAt |-> CreatedAtOf(data) ]

\* the summary loadMessages pushes
MessagesSummary(id, data) ==
    [ id        |-> id,
      date      |-> DateOf(data),
      dateLabel |-> DateLabelOf(data),
      messages  |-> IF "messages" \in DOMAIN data THEN data.messages ELSE <<>>,
      createdAt |-> CreatedAtOf(data) ]

\* the comparator of the sort: b.getTime() - a.getTime(), where a NaN
\* result counts as 0
Compare(a, b) ==
    IF getTime(a.createdAt) = NaN \/ getTime(b.createdAt) = NaN THEN 0
    ELSE getTime(b.createdAt) - getTime(a.createdAt)

\* the comparator is a consistent one for the summaries: equality under it
\* is transitive
ConsistentFor(summaries) ==
    \A a, b, c \in summaries :
        (Compare(a, b) = 0 /\ Compare(b, c) = 0) => Compare(a, c) = 0

\* the sequences that hold every one of the summaries once
Arrangements(summaries) ==
    { p \in [1..Cardinality(summaries) -> summaries] :
        \A i, j \in 1..Cardinality(summaries) : i # j => p[i] # p[j] }

\* the results of sort(): the order of localStorage.key(i) is the
\* browser's, so equal elements come in any order; with an inconsistent
\* comparator the order is implementation-defined
Sorted_Unordered(summaries) == Arrangements(summaries)
Sorted(summaries) ==
    { p \in Arrangements(summaries) :
        ConsistentFor(summaries) =>
            \A i, j \in 1..Len(p) : i < j => Compare(p[i], p[j]) <= 0 }

\* the keys of the store that start with a prefix
KeysWith(store, prefix) == { k \in DOMAIN store : k[1] = prefix }

\* the lists loadWorksheets can set
WorksheetListings(store) ==
    Sorted({ WorksheetSummary(k[2], store[k]) :
               k \in { x \in KeysWith(store, "worksheet_") : Summarized(store[x]) } })

\* the lists loadMessages can set
MessageListings(store) ==
    Sorted({ MessagesSummary(k[2], store[k]) :
               k \in { x \in KeysWith(store, "messages_") : Summarized(store[x]) } })

ListInit ==
    /\ activeView = "tomorrow"
    /\ stage = "input"
    /\ imageFiles = 0
    /\ timeSlots = <<>>
    /\ isProcessing = FALSE
    /\ error = NoMessage
    /\ processedData = Null
    /\ jobCount = 0
    /\ localStorage \in StoresUpTo(MaxIds)
    /\ now = MaxIds
    /\ pcProcess = "idle"
    /\ effectPending = FALSE
    /\ edited = NoEdits
    /\ derivations = 0
    /\ rerunAfterEdit = FALSE
    /\ ParseIdle
    /\ ReviseIdle
    /\ ViewIdle
    /\ TravelIdle
    /\ ConnIdle
    /\ ListIdle
    /\ SearchIdle

\* the worksheet list is navigated to: it mounts and its effect loads the list
ShowWorksheetList ==
    /\ activeView # "worksheets_list"
    /\ activeView' = "worksheets_list"
    /\ worksheets' \in WorksheetListings(localStorage)
    /\ messageGroups' = <<>>
    /\ deleteModal' = ModalClosed
    /\ lastDelete' = Null
    /\ UNCHANGED localStorage

\* the message list is navigated to: it mounts and its effect loads the list
ShowMessagesList ==
    /\ activeView # "messages_list"
    /\ activeView' = "messages_list"
    /\ messageGroups' \in MessageListings(localStorage)
    /\ worksheets' = <<>>
    /\ deleteModal' = ModalClosed
    /\ lastDelete' = Null
    /\ UNCHANGED localStorage

\* confirmDelete(id): the dialog opens for the id
ConfirmDelete(id) ==
    /\ activeView = "worksheets_list"
    /\ ~deleteModal.isOpen
    /\ deleteModal' = [isOpen |-> TRUE, id |-> id]
    /\ lastDelete' = Null
    /\ UNCHANGED <<activeView, localStorage, worksheets, messageGroups>>

\* the dialog's onCancel
CancelDelete ==
    /\ activeView = "worksheets_list"
    /\ deleteModal.isOpen
    /\ deleteModal' = ModalClosed
    /\ lastDelete' = Null
    /\ UNCHANGED <<activeView, localStorage, worksheets, messageGroups>>

\* the keys handleDelete removes for an id
DeletedKeys_WorksheetOnly(id) == << WorksheetKey(id) >>
DeletedKeys(id) == << WorksheetKey(id), MessagesKey(id) >>

\* handleDelete, the dialog's onConfirm; the id of an open dialog is set
HandleDelete ==
    /\ activeView = "worksheets_list"
    /\ deleteModal.isOpen
    /\ localStorage' = RemoveItems(localStorage, DeletedKeys(deleteModal.id))
    /\ worksheets' \in WorksheetListings(localStorage')
    /\ deleteModal' = ModalClosed
    /\ lastDelete' = [id |-> deleteModal.id, before |-> localStorage]
    /\ UNCHANGED <<activeView, messageGroups>>

\* deleteMessages(id) of the message list, confirmed
DeleteMessages(id) ==
    /\ activeView = "messages_list"
    /\ \E k \in 1..Len(messageGroups) : messageGroups[k].id = id
    /\ localStorage' = RemoveItem(localStorage, MessagesKey(id))
    /\ messageGroups' \in MessageListings(localStorage')
    /\ lastDelete' = Null
    /\ UNCHANGED <<activeView, worksheets, deleteModal>>

ListFrame ==
    UNCHANGED <<parseVars, reviseVars, viewVars, travelVars, connVars, searchVars, stage,
                imageFiles, timeSlots, isProcessing, error, processedData,
                jobCount, now, pcProcess, effectPending, edited, derivations,
                rerunAfterEdit>>

ListNext ==
    \/ ShowWorksheetList /\ ListFrame
    \/ ShowMessagesList /\ ListFrame
    \/ \E id \in ListIds : ConfirmDelete(id) /\ ListFrame
    \/ CancelDelete /\ ListFrame
    \/ HandleDelete /\ ListFrame
    \/ \E id \in ListIds : DeleteMessages(id) /\ ListFrame

SpecList == ListInit /\ [][ListNext]_vars

(***************************************************************************)
(* Saves, deletions and the clearing of all data on one store              *)
(***************************************************************************)
RECURSIVE SavedStoresUpTo(_)
\* the stores that saves at some of the times 1..n wrote
SavedStoresUpTo(n) ==
    IF n = 0 THEN { [k \in {} |-> Null] }
    ELSE SavedStoresUpTo(n - 1) \cup
         { SetItem(SetItem(st, WorksheetKey(n), SavedWorksheet(n)),
                   MessagesKey(n), SavedMessageSet(n)) :
             st \in SavedStoresUpTo(n - 1) }

\* a review that is about to be saved, with earlier saves in the store
PairsInit ==
    /\ activeView = "tomorrow"
    /\ stage = "review"
    /\ imageFiles = 1
    /\ timeSlots = initialSlots(1)
    /\ isProcessing = FALSE
    /\ error = NoMessage
    /\ processedData = ListedResult
    /\ jobCount = 1
    /\ localStorage \in SavedStoresUpTo(MaxIds)
    /\ now = MaxIds + 1
    /\ pcProcess = "idle"
    /\ effectPending = FALSE
    /\ edited = NoEdits
    /\ derivations = 1
    /\ rerunAfterEdit = FALSE
    /\ ParseIdle
    /\ ReviseIdle
    /\ ViewIdle
    /\ TravelIdle
    /\ ConnIdle
    /\ ListIdle
    /\ SearchIdle

\* the view of a list is left for another view: the list unmounts
LeaveLists(view) ==
    /\ view \in {"tomorrow", "settings"}
    /\ Navigate(view)
    /\ worksheets' = <<>>
    /\ messageGroups' = <<>>
    /\ deleteModal' = ModalClosed
    /\ lastDelete' = Null

\* the Clear All Data button of the settings view, confirmed: the keys that
\* start with worksheet_ or messages_ are collected, then removed
ClearAllData ==
    /\ activeView = "settings"
    /\ localStorage' =
          [k \in DOMAIN localStorage \
                   (KeysWith(localStorage, "worksheet_") \cup
                    KeysWith(localStorage, "messages_")) |-> localStorage[k]]
    /\ lastDelete' = Null
    /\ UNCHANGED <<activeView, worksheets, messageGroups, deleteModal>>

PairsFrame ==
    UNCHANGED <<parseVars, reviseVars, viewVars, travelVars, connVars, searchVars>>

PairsNext ==
    \/ \E today \in TodayLabels :
          HandleSaveWorksheet(today) /\ PairsFrame /\ UNCHANGED listVars
    \/ TimeSlotEffect /\ PairsFrame /\ UNCHANGED listVars
    \/ \E v \in {"tomorrow", "settings"} : LeaveLists(v) /\ PairsFrame
    \/ ~effectPending /\ ShowWorksheetList /\ ListFrame
    \/ ~effectPending /\ ShowMessagesList /\ ListFrame
    \/ \E id \in 1..(MaxIds + 1) : ConfirmDelete(id) /\ ListFrame
    \/ CancelDelete /\ ListFrame
    \/ HandleDelete /\ ListFrame
    \/ \E id \in 1..(MaxIds + 1) : DeleteMessages(id) /\ ListFrame
    \/ ClearAllData /\ ListFrame

SpecPairs == PairsInit /\ [][PairsNext]_vars

(***************************************************************************)
(* The parts search of one job card (JobCard polling effect,               *)
(* handlePartsSearch)                                                      *)
(***************************************************************************)
\* how many searches a card submits in a run
MaxSearches == 3

\* what the agent answers to GET /job/<id>: the job is still running, it
\* succeeded, it failed, or the request throws
PollAnswers == {"running", "success", "failed", "throws"}

\* the result of the agent job with an id, as a poll sets it
JobResult(id) == [kind |-> "job", job |-> id]
\* 'Could not connect to agent'
NotConnected == [kind |-> "Could not connect to agent", job |-> 0]

\* the polling effect has an interval running: its guard
\* searchStatus !== 'searching' || !currentJobId did not return
Polling(status, jobId) == status = "searching" /\ jobId # 0

SearchInit ==
    /\ AppInit
    /\ ParseIdle
    /\ ReviseIdle
    /\ ViewIdle
    /\ TravelIdle
    /\ ConnIdle
    /\ ListIdle
    /\ SearchIdle

\* handlePartsSearch up to its await; the Find button is disabled while the
\* status is 'searching', and the description is not empty
HandlePartsSearch ==
    /\ searchStatus # "searching"
    /\ searches < MaxSearches
    /\ searchStatus' = "searching"
    /\ searchResult' = NoResult
    /\ searches' = searches + 1
    /\ pendingSearch' = pendingSearch \cup {searches + 1}
    /\ UNCHANGED <<currentJobId, pollsInFlight>>

\* handlePartsSearch after its await: the response is ok and carries the id
\* of the new job, or the submission failed
SubmissionSettles(k, ok) ==
    /\ k \in pendingSearch
    /\ pendingSearch' = pendingSearch \ {k}
    /\ IF ok
       THEN /\ currentJobId' = k
            /\ UNCHANGED <<searchStatus, searchResult>>
       ELSE /\ searchStatus' = "failed"
            /\ searchResult' = NotConnected
            /\ UNCHANGED currentJobId
    /\ UNCHANGED <<searches, pollsInFlight>>

\* a tick of the interval: the callback runs up to its first await
PollTick ==
    /\ Polling(searchStatus, currentJobId)
    /\ currentJobId \notin pollsInFlight
    /\ pollsInFlight' = pollsInFlight \cup {currentJobId}
    /\ UNCHANGED <<searchStatus, searchResult, currentJobId, searches, pendingSearch>>

\* the callback of a tick after its awaits
PollSettles(id, answer) ==
    /\ id \in pollsInFlight
    /\ pollsInFlight' = pollsInFlight \ {id}
    /\ IF answer = "success"
       THEN /\ searchResult' = JobResult(id)
            /\ searchStatus' = "complete"
       ELSE IF answer = "failed"
       THEN /\ searchResult' = JobResult(id)
            /\ searchStatus' = "failed"
       ELSE UNCHANGED <<searchStatus, searchResult>>
    /\ UNCHANGED <<currentJobId, searches, pendingSearch>>

SearchFrame ==
    UNCHANGED <<parseVars, appVars, reviseVars, viewVars, travelVars, connVars, listVars>>

SearchNext ==
    \/ HandlePartsSearch /\ SearchFrame
    \/ \E k \in 1..MaxSearches, ok \in BOOLEAN : SubmissionSettles(k, ok) /\ SearchFrame
    \/ PollTick /\ SearchFrame
    \/ \E id \in 1..MaxSearches, a \in PollAnswers : PollSettles(id, a) /\ SearchFrame

SpecSearch == SearchInit /\ [][SearchNext]_vars

(***************************************************************************)
(* The extraction request (handleProcessImages, geminiService.ts)          *)
(***************************************************************************)
\* what ai.models.generateContent does for a request: it rejects, or it
\* resolves with a response whose text is empty, is no JSON, is the JSON
\* null, is an object without dataTable, with an empty dataTable, with
\* notifications that are no array, or is an extraction result
ServiceResponses ==
    { [kind |-> k, value |-> Null] :
        k \in {"rejects", "empty", "unparseable", "null", "noTable", "emptyTable",
               "notArray"} }
    \cup { [kind |-> "result", value |-> r] : r \in ExtractionResults }

\* processFieldDataFromImages: the value it resolves to, or Rejected
processFieldDataFromImages_EmptyAccepted(hasKey, response) ==
    IF ~hasKey \/ response.kind = "rejects" THEN Rejected
    ELSE IF response.kind = "empty"
         THEN [dataTable |-> <<>>, notifications |-> <<>>]
    ELSE IF response.kind = "result" THEN response.value
    ELSE Rejected
processFieldDataFromImages(hasKey, response) ==
    IF ~hasKey THEN Rejected
    ELSE IF response.kind = "rejects" THEN Rejected
    ELSE IF response.kind = "empty" THEN Rejected
    ELSE IF response.kind = "unparseable" THEN Rejected
    ELSE IF response.kind = "null" THEN Rejected
    ELSE IF response.kind \in {"noTable", "emptyTable"} THEN Rejected
    ELSE IF response.kind = "notArray" THEN Rejected
    ELSE response.value

\* handleProcessImages called with no image selected
ProcessWithoutImages ==
    /\ activeView = "tomorrow" /\ stage = "input"
    /\ imageFiles = 0
    /\ error' = "Please upload at least one image."
    /\ UNCHANGED <<activeView, stage, imageFiles, timeSlots, isProcessing,
                   processedData, jobCount, localStorage, now, pcProcess,
                   effectPending, edited, derivations, rerunAfterEdit>>

\* handleProcessImages after its awaits: the files were read or a reader
\* failed, and the service call settled
ProcessSettles(filesRead, hasKey, response) ==
    IF filesRead /\ processFieldDataFromImages(hasKey, response) # Rejected
    THEN ProcessOk(processFieldDataFromImages(hasKey, response))
    ELSE ProcessFail

ExtractFrame == UNCHANGED <<parseVars, reviseVars, viewVars, travelVars, connVars, listVars, searchVars>>

ExtractNext ==
    \/ \E n \in 0..1 : HandleImagesSelected(n) /\ ExtractFrame
    \/ ProcessStart /\ ExtractFrame
    \/ ProcessWithoutImages /\ ExtractFrame
    \/ \E f \in BOOLEAN, k \in BOOLEAN, r \in ServiceResponses :
          ProcessSettles(f, k, r) /\ ExtractFrame
    \/ \E v \in Views : Navigate(v) /\ ExtractFrame
    \/ TimeSlotEffect /\ ExtractFrame
    \/ \E i \in 0..(MaxJobs + 1), c \in StartChoices :
          HandleStartTimeChange(i, c) /\ ExtractFrame
    \/ \E today \in TodayLabels : HandleSaveWorksheet(today) /\ ExtractFrame
    \/ HandleStartNew /\ ExtractFrame

SpecExtract == ReviewInit /\ [][ExtractNext]_vars

(***************************************************************************)
(* The worksheet view switched from one worksheet to another               *)
(***************************************************************************)

\* the id of a second saved worksheet
OtherId == 2

\* the stores after two saves, under ViewedId and under OtherId
SwitchStores ==
    { SavedEntries(s, r, initialSlots(Len(r.notifications)), today, OtherId) :
        s \in SavedStores,
        r \in { x \in ExtractionResults : Len(x.notifications) > 0 },
        today \in TodayLabels }

SwitchInit ==
    /\ activeView = "worksheets_list"
    /\ stage = "saved"
    /\ imageFiles = 1
    /\ localStorage \in SwitchStores
    /\ timeSlots = localStorage[WorksheetKey(OtherId)].timeSlots
    /\ isProcessing = FALSE
    /\ error = NoMessage
    /\ processedData \in { r \in ExtractionResults :
                             Len(r.notifications) = Len(timeSlots) }
    /\ jobCount = Len(timeSlots)
    /\ now = OtherId
    /\ pcProcess = "idle"
    /\ effectPending = FALSE
    /\ edited = NoEdits
    /\ derivations = 1
    /\ rerunAfterEdit = FALSE
    /\ ParseIdle
    /\ ReviseIdle
    /\ ViewIdle
    /\ TravelIdle
    /\ ConnIdle
    /\ ListIdle
    /\ SearchIdle

\* a worksheet of the sidebar is selected while another one is viewed:
\* handleNavigate sets selectedWorksheetId, the WorksheetView element has no
\* key, so the mounted instance and its cards (keyed by index) keep their
\* state and only the worksheetId prop changes.  The load effect runs for the
\* new id and replaces worksheet and comments if a record is stored; cards of
\* positions that were shown before keep their comment state, further cards
\* mount with the saved comment.  handleCommentChange gets a new identity, so
\* that every card restarts its debounce.
SwitchWorksheet(id) ==
    /\ pcView = "open"
    /\ id # worksheetId
    /\ worksheetId' = id
    /\ LET saved == GetItem(localStorage, WorksheetKey(id))
       IN  IF saved # Null
           THEN /\ worksheet' = saved
                /\ comments' = saved.comments
                /\ cardComment' = [k \in 1..Len(saved.jobs) |->
                                      IF k <= Len(cardComment) THEN cardComment[k]
                                      ELSE savedComment(saved.comments, k - 1)]
                /\ cardFrom' = [k \in 1..Len(saved.jobs) |->
                                   IF k <= Len(cardFrom) THEN cardFrom[k] ELSE id]
                /\ timers' = Cards(saved)
           ELSE /\ timers' = Cards(worksheet)
                /\ UNCHANGED <<worksheet, comments, cardComment, cardFrom>>
    /\ lastUpdate' = Null
    /\ UNCHANGED <<activeView, pcView, updates, localStorage>>

SwitchNext ==
    \/ OpenWorksheet /\ ViewFrame
    \/ LoadEffect /\ ViewFrame
    \/ \E id \in {ViewedId, OtherId} : SwitchWorksheet(id) /\ ViewFrame
    \/ \E i \in 0..(MaxJobs - 1), t \in CommentTexts : TypeComment(i, t) /\ ViewFrame
    \/ \E i \in 0..(MaxJobs - 1) : HandleCommentChange(i) /\ ViewFrame
    \/ Back /\ ViewFrame

SpecSwitch == SwitchInit /\ [][SwitchNext]_vars

(***************************************************************************)
(* The parser applied to one text                                          *)
(***************************************************************************)
ParseInit ==
    /\ markdown \in InputTexts
    /\ pcParse = "start"
    /\ jobs = <<>>
    /\ jobSrc = <<>>
    /\ AppInit
    /\ ReviseIdle
    /\ ViewIdle
    /\ TravelIdle
    /\ ConnIdle
    /\ ListIdle
    /\ SearchIdle

Parse ==
    /\ pcParse = "start"
    /\ pcParse' = "done"
    /\ jobs' = parseMarkdownTable(markdown)
    /\ jobSrc' = AcceptedLines(markdown)
    /\ UNCHANGED <<markdown, appVars, reviseVars, viewVars, travelVars, connVars,
                   listVars, searchVars>>

SpecParse == ParseInit /\ [][Parse]_vars

(***************************************************************************)
(* Claims about the parser                                                 *)
(***************************************************************************)
\* the cell values of a line as the specification defines them: the
\* delimiter-separated fragments, without the empty first and last fragment
\* of a line that opens and closes with the delimiter
CellsOf(line) ==
    LET parts == split(line, "|")
        n == Len(parts)
        lo == IF n > 1 /\ trim(parts[1]) = <<>> THEN 2 ELSE 1
        hi == IF n > 1 /\ trim(parts[n]) = <<>> THEN n - 1 ELSE n
    IN  SubSeq(parts, lo, hi)

\* a separator/rule line: dashes, and nothing but dashes, delimiters, colons and blanks
IsRuleLine(line) ==
    /\ \E k \in 1..Len(line) : line[k] = "-"
    /\ \A k \in 1..Len(line) : line[k] \in {"-", "|", ":", " "}

IsHeaderLine(line) ==
    /\ includes(toLowerCase(line), <<"t","i","m","e">>)
    /\ includes(toLowerCase(line), <<"a","d","d","r","e","s","s">>)

QualifiesAsDataRow(line) ==
    /\ includes(line, <<"|">>)
    /\ ~IsRuleLine(line)
    /\ ~IsHeaderLine(line)

\* C1: no returned job comes from a line that has fewer than 9 cells.
C1_JobsHaveNineCells ==
    pcParse = "done" =>
        \A k \in 1..Len(jobSrc) :
            Len(CellsOf(TableLines(markdown)[jobSrc[k]])) >= 9

\* C2: the returned jobs are exactly the qualifying data rows with at least 9
\* cells, one job per row, in input line order (a line qualifies iff it holds
\* the delimiter, is no rule line made only of dashes and is no header line).
C2_OneJobPerQualifyingRow ==
    pcParse = "done" =>
        LET lines == TableLines(markdown)
        IN  /\ Len(jobs) = Len(jobSrc)
            /\ jobSrc = SelectSeq([k \in 1..Len(lines) |-> k],
                                  LAMBDA k : /\ QualifiesAsDataRow(lines[k])
                                             /\ Len(CellsOf(lines[k])) >= 9)

(***************************************************************************)
(* Claims about the time slots                                             *)
(***************************************************************************)
\* the minutes after midnight an "HH:MM" string stands for
ClockMinutes(t) == DigitsValue(SubSeq(t, 1, 2), 0) * 60 + DigitsValue(SubSeq(t, 4, 5), 0)

IsClockText(t) ==
    /\ Len(t) = 5
    /\ t[3] = ":"
    /\ \A k \in {1, 2, 4, 5} : IsDigit(t[k])

\* the slot is a window of 120 minutes
TwoHourSlot(slot) ==
    /\ IsClockText(slot.start)
    /\ IsClockText(slot.end)
    /\ ClockMinutes(slot.end) = ClockMinutes(slot.start) + 120

FixedFirstSlot == [start |-> <<"0","7",":","3","0">>, end |-> <<"0","8",":","3","0">>]

\* C4: the default slots are written at most once in a review, and only for
\* jobCount > 0; whatever triggers the effect afterwards (the first mount, a
\* re-mount after navigation, a changed dependency), every start the user
\* chose is still the start of its slot.
C4_DerivedOnceEditsKept ==
    /\ derivations <= 1
    /\ (derivations = 1 => jobCount > 0)
    /\ \A i \in DOMAIN edited :
          /\ i + 1 <= Len(timeSlots)
          /\ timeSlots[i + 1].start = edited[i]

\* the effect has run again after a user edit, and the edit is still there
C4_Witness ==
    /\ stage = "review"
    /\ rerunAfterEdit
    /\ ~effectPending
    /\ edited # NoEdits
    /\ \E i \in DOMAIN edited : timeSlots[i + 1] # initialSlots(jobCount)[i + 1]

\* C5: during review slot 0 is {07:30, 08:30} and every later slot ends 120
\* minutes after its start, whatever the user edited.
C5_SlotInvariant ==
    (stage = "review" /\ timeSlots # <<>>) =>
        /\ timeSlots[1] = FixedFirstSlot
        /\ \A k \in 2..Len(timeSlots) : TwoHourSlot(timeSlots[k])

\* a slot after the first was edited to the last selectable start
C5_Witness ==
    /\ stage = "review"
    /\ \E i \in DOMAIN edited :
          /\ i >= 1
          /\ timeSlots[i + 1] = [start |-> <<"1","8",":","0","0">>,
                                 end   |-> <<"2","0",":","0","0">>]

\* C6: for jobCount = n > 0 the derivation runs as soon as the manager is
\* shown and writes exactly n slots: slot 0 is {07:30, 08:30} and slot i >= 1
\* starts at 08:00 + (i-1)*120 minutes and ends 120 minutes later.
C6_DerivedSlots ==
    /\ (Mounted /\ ~effectPending /\ jobCount > 0) => derivations = 1
    /\ (derivations = 1 /\ edited = NoEdits) =>
          /\ Len(timeSlots) = jobCount
          /\ timeSlots[1] = FixedFirstSlot
          /\ \A k \in 2..Len(timeSlots) :
                /\ TwoHourSlot(timeSlots[k])
                /\ ClockMinutes(timeSlots[k].start) = 8 * 60 + (k - 2) * 120
          /\ (jobCount >= 2 =>
                timeSlots[2] = [start |-> <<"0","8",":","0","0">>,
                                end   |-> <<"1","0",":","0","0">>])

\* the derivation for three jobs: slot 2 is {10:00, 12:00}
C6_Witness ==
    /\ jobCount = 3
    /\ derivations = 1
    /\ edited = NoEdits
    /\ Len(timeSlots) = 3
    /\ timeSlots[3] = [start |-> <<"1","0",":","0","0">>, end |-> <<"1","2",":","0","0">>]

\* what the call left of the list it was given
ReviseFrame ==
    /\ Len(timeSlots) = Len(revised.before)
    /\ \A k \in 1..Len(timeSlots) :
          k # revised.index + 1 => timeSlots[k] = revised.before[k]

ReviseResult ==
    /\ timeSlots[revised.index + 1].start = revised.start
    /\ TwoHourSlot(timeSlots[revised.index + 1])

\* C7 as stated: for every index of the list and every selectable start S the
\* revised slot is {S, S+120min}, a revision to the current start leaves the
\* slot unchanged, and no other slot and not the length is changed.
C7_ReviseEveryIndex ==
    pcRevise = "done" =>
        /\ ReviseResult
        /\ ReviseFrame
        /\ (revised.start = revised.before[revised.index + 1].start =>
               timeSlots[revised.index + 1] = revised.before[revised.index + 1])

\* C7 amended: the same, with the revision to the current start leaving the
\* slot unchanged for every index but 0 (slot 0 is the fixed {07:30, 08:30},
\* which is no two-hour window), and with a second revision to the same start
\* changing nothing for every index.
C7_ReviseAmended ==
    pcRevise = "done" =>
        /\ ReviseResult
        /\ ReviseFrame
        /\ ((revised.index >= 1 /\ revised.start = revised.before[revised.index + 1].start)
               => timeSlots[revised.index + 1] = revised.before[revised.index + 1])
        /\ SlotsAfterChange(timeSlots, revised.index, revised.start) = timeSlots

\* a slot after the first was revised to the start it already had
C7_Witness ==
    /\ pcRevise = "done"
    /\ revised.index >= 1
    /\ revised.start = revised.before[revised.index + 1].start
    /\ Len(timeSlots) >= 3

(***************************************************************************)
(* Claims about the viewed worksheet                                       *)
(***************************************************************************)
\* C3: after updateJobField(index, X) the persisted record has jobs[index] = X
\* and every other job, every time slot and every job's comment as they were
\* persisted right before the update, whatever comment updates and job
\* updates came earlier in the viewing session.
C3_UpdateKeepsRest ==
    lastUpdate # Null =>
        LET b == lastUpdate.before
            a == lastUpdate.after
        IN  /\ Len(a.jobs) = Len(b.jobs)
            /\ a.jobs[lastUpdate.index + 1] = lastUpdate.job
            /\ \A k \in 1..Len(a.jobs) :
                  k # lastUpdate.index + 1 => a.jobs[k] = b.jobs[k]
            /\ a.timeSlots = b.timeSlots
            /\ \A i \in 0..(Len(a.jobs) - 1) :
                  savedComment(a.comments, i) = savedComment(b.comments, i)

\* the part of C3 about the jobs and the slots alone
C3_JobsAndSlotsKept ==
    lastUpdate # Null =>
        LET b == lastUpdate.before
            a == lastUpdate.after
        IN  /\ Len(a.jobs) = Len(b.jobs)
            /\ a.jobs[lastUpdate.index + 1] = lastUpdate.job
            /\ \A k \in 1..Len(a.jobs) :
                  k # lastUpdate.index + 1 => a.jobs[k] = b.jobs[k]
            /\ a.timeSlots = b.timeSlots

(***************************************************************************)
(* Claims about the travel estimate                                        *)
(***************************************************************************)
RouteRequests == SelectSeq(sent, LAMBDA rq : rq.svc = "route")
GeocodeRequests == SelectSeq(sent, LAMBDA rq : rq.svc = "geocode")

\* the lookup gave coordinates
ResolvedCoordinates(lk) ==
    /\ lk.st = "done"
    /\ lk.value # Null
    /\ lk.value.lat # NaN
    /\ lk.value.lon # NaN

\* the text is the whole number of minutes nearest to the seconds
IsMinutesOf(text, seconds) ==
    \E mins \in 0..60 :
        /\ text = String(mins) \o <<" ","m","i","n","s">>
        /\ 60 * mins - 30 <= seconds
        /\ seconds < 60 * mins + 30

\* the text is the miles of the meters with one decimal place
IsMilesOf(text, meters) ==
    \E tenths \in 0..20 :
        /\ text = String(tenths \div 10) \o <<".">> \o String(tenths % 10) \o <<" ","m","i">>
        /\ tenths * 100000000 - 50000000 <= meters * 621371
        /\ meters * 621371 < tenths * 100000000 + 50000000

C8_WitnessAbsent ==
    /\ pcEstimate = "resolved"
    /\ estimate = Null
    /\ lookup.o.value # Null
    /\ lookup.d.st = "done" /\ lookup.d.value = Null /\ lookup.d.turn = 1
    /\ Len(RouteRequests) = 0

\* C9: for an empty origin or an empty destination the call returns absent
\* and makes no geocoding and no routing request.
C9_EmptyAddressAbsent ==
    ((origin = <<>> \/ destination = <<>>) /\ pcEstimate \notin {"idle", "start"}) =>
        /\ pcEstimate = "resolved"
        /\ estimate = Null
        /\ sent = <<>>

\* C9 for the addresses the map link can be built of
C9_EmptyAddressAbsentEncodable ==
    ((origin = <<>> \/ destination = <<>>) /\ pcEstimate \notin {"idle", "start"}
        /\ ~MapsUrlThrows(origin, destination)) =>
        /\ pcEstimate = "resolved"
        /\ estimate = Null
        /\ sent = <<>>

\* C10: for an address whose normalized form has fewer than 3 characters
\* no geocoding request is sent, its lookup ends without coordinates, and
\* the estimate is absent.
C10_ShortQueryNotSent ==
    \A sd \in Sides :
        LET address == IF sd = "o" THEN origin ELSE destination
        IN  (pcEstimate \notin {"idle", "start"}
                /\ Len(cleanAddressForGeocode(address)) < 3) =>
              /\ \A k \in 1..Len(sent) : sent[k].side # sd
              /\ lookup[sd].st \in {"none", "done"}
              /\ lookup[sd].value = Null
              /\ estimate = Null

\* the part of C10 about the placeholder address
C10_PlaceholderNotSent ==
    \A sd \in Sides :
        LET address == IF sd = "o" THEN origin ELSE destination
        IN  (pcEstimate \notin {"idle", "start"} /\ address \in {<<>>, TBD}) =>
              /\ \A k \in 1..Len(sent) : sent[k].side # sd
              /\ lookup[sd].value = Null
              /\ estimate = Null

\* C11: the call never rejects: whatever the two addresses are and whatever
\* the services answer at any stage, it ends resolved, with an estimate or
\* with absent.
C11_NeverRejects == pcEstimate # "rejected"

\* C11 for the addresses the map link can be built of: every settled fetch
\* and body leaves the call running or resolved
C11_NeverRejectsEncodable ==
    ~MapsUrlThrows(origin, destination) => pcEstimate # "rejected"

(***************************************************************************)
(* Claims about the travel connector                                       *)
(***************************************************************************)
\* C12: the estimate of an effect run that was cleaned up, by an unmount or
\* by a change of the props, changes neither the route nor the loading state
\* when it settles, in whatever order props changes, unmounts and estimates
\* come.
C12_LateResultDiscarded ==
    (lastSettle # Null /\ ~lastSettle.request.mounted) =>
        /\ route = lastSettle.route
        /\ loading = lastSettle.loading

\* an estimate of a route settled after the props were changed, while the
\* connector shows the loading state of the request that followed it
C12_Witness ==
    /\ lastSettle # Null
    /\ ~lastSettle.request.mounted
    /\ lastSettle.outcome \notin {Null, Rejected}
    /\ shown
    /\ loading
    /\ <<lastSettle.request.origin, lastSettle.request.destination>>
          # <<origin, destination>>

\* an estimate settled after the connector was unmounted
C12_WitnessUnmounted ==
    /\ lastSettle # Null
    /\ ~lastSettle.request.mounted
    /\ ~shown

(***************************************************************************)
(* Claims about the saved entries                                          *)
(***************************************************************************)
\* the message set stored by the save
SavedMessages == localStorage[MessagesKey(now)].messages

\* the text is the notification with its placeholder, at position p, replaced
\* by the time text
FilledAt(text, notification, p, time) ==
    /\ SubSeq(notification, p, p + Len(Placeholder) - 1) = Placeholder
    /\ text = SubSeq(notification, 1, p - 1) \o time
                \o SubSeq(notification, p + Len(Placeholder), Len(notification))

\* C13: a save stores one message per notification, in the order of the
\* notifications; message i is notification i with its placeholder replaced
\* by "start - end" of slot i, or by "[TIME]" when there is no slot i; and
\* the save is made whatever the numbers of slots and of notifications are.
C13_MessagesFinalized ==
    stage = "saved" =>
        /\ MessagesKey(now) \in DOMAIN localStorage
        /\ Len(SavedMessages) = Len(processedData.notifications)
        /\ \A i \in 1..Len(SavedMessages) :
              \E p \in 1..(Len(processedData.notifications[i]) - Len(Placeholder) + 1) :
                  FilledAt(SavedMessages[i], processedData.notifications[i], p,
                           IF i <= Len(timeSlots)
                           THEN timeSlots[i].start \o <<" ","-"," ">> \o timeSlots[i].end
                           ELSE <<"[","T","I","M","E","]">>)

\* a save with fewer slots than notifications: the last message has the marker
C13_Witness ==
    /\ stage = "saved"
    /\ Len(timeSlots) = 1
    /\ Len(SavedMessages) = 3
    /\ SavedMessages[2] = <<"A","t"," ","[","T","I","M","E","]",".">>
    /\ SavedMessages[1] = <<"H","i"," ","0","7",":","3","0"," ","-"," ","0","8",":","3","0">>

(***************************************************************************)
(* Claims about the texts of the slots                                     *)
(***************************************************************************)
\* a zero-padded 24-hour "HH:MM": hours 00..23, minutes 00..59
IsTimeOfDay(t) ==
    /\ IsClockText(t)
    /\ DigitsValue(SubSeq(t, 1, 2), 0) <= 23
    /\ DigitsValue(SubSeq(t, 4, 5), 0) <= 59

\* C15: every start and every end of a slot that the derivation (for any
\* number of jobs) or a revision (with any start of the select) produced is
\* a zero-padded 24-hour HH:MM text.
C15_SlotsAreTimesOfDay ==
    \A k \in 1..Len(timeSlots) :
        IsTimeOfDay(timeSlots[k].start) /\ IsTimeOfDay(timeSlots[k].end)

\* what does hold: every slot that a revision produced is such a text
C15_RevisedAreTimesOfDay ==
    \A i \in DOMAIN edited :
        IsTimeOfDay(timeSlots[i + 1].start) /\ IsTimeOfDay(timeSlots[i + 1].end)

(***************************************************************************)
(* Claims about the fields of a job                                        *)
(***************************************************************************)
\* the cell at a 1-based position of the line, trimmed; "" when there is none
CellAt(line, n) ==
    LET cells == CellsOf(line)
    IN  IF n <= Len(cells) THEN trim(cells[n]) ELSE <<>>

\* the job whose fields are the first nine cells of the line, in order
JobOfCells(line) ==
    [ time           |-> IF CellAt(line, 1) = <<>> THEN <<"T","B","D">> ELSE CellAt(line, 1),
      address        |-> CellAt(line, 2),
      productCode    |-> CellAt(line, 3),
      productType    |-> CellAt(line, 4),
      productBrand   |-> CellAt(line, 5),
      fault          |-> CellAt(line, 6),
      errorCode      |-> CellAt(line, 7),
      productionYear |-> CellAt(line, 8),
      serialNumber   |-> CellAt(line, 9) ]

OpensAndCloses(line) ==
    LET parts == split(line, "|")
    IN  Len(parts) > 1 /\ trim(parts[1]) = <<>> /\ trim(parts[Len(parts)]) = <<>>

\* C16: the fields of every returned job are the delimiter-separated cells of
\* its line, in order (time the first cell or "TBD" when it is blank, ...,
\* serialNumber the ninth), whether or not the line opens and closes with
\* the delimiter.
C16_FieldsAreCells ==
    pcParse = "done" =>
        \A k \in 1..Len(jobs) :
            jobs[k] = JobOfCells(TableLines(markdown)[jobSrc[k]])

\* what does hold: the fields are the cells for every line that opens and
\* closes with the delimiter
C16_FieldsAreCellsBracketed ==
    pcParse = "done" =>
        \A k \in 1..Len(jobs) :
            OpensAndCloses(TableLines(markdown)[jobSrc[k]]) =>
                jobs[k] = JobOfCells(TableLines(markdown)[jobSrc[k]])

(***************************************************************************)
(* Claims about the comment update                                         *)
(***************************************************************************)
\* the persisted record of the viewed worksheet, before and after a step
StoredBefore == localStorage[WorksheetKey(ViewedId)]
StoredAfter == localStorage'[WorksheetKey(ViewedId)]

\* C17: a comment update of index i with a text sets comments[i] to the text
\* in the persisted record and leaves every other comment entry, every job
\* and every time slot of the persisted record as it was.
C17_CommentUpdateKeepsRest ==
    [][ \A i \in 0..(MaxJobs - 1) :
          (HandleCommentChange(i) /\ worksheet # Null) =>
              /\ StoredAfter.comments[i] = cardComment[i + 1]
              /\ DOMAIN StoredAfter.comments = DOMAIN StoredBefore.comments \cup {i}
              /\ \A k \in DOMAIN StoredBefore.comments \ {i} :
                    StoredAfter.comments[k] = StoredBefore.comments[k]
              /\ StoredAfter.jobs = StoredBefore.jobs
              /\ StoredAfter.timeSlots = StoredBefore.timeSlots ]_vars

\* what does hold: the update merges the text into the view's comments
\* mapping, persists that mapping, and leaves the persisted jobs and time
\* slots as they were
C17_CommentMergedIntoMapping ==
    [][ \A i \in 0..(MaxJobs - 1) :
          (HandleCommentChange(i) /\ worksheet # Null) =>
              /\ StoredAfter.comments[i] = cardComment[i + 1]
              /\ DOMAIN StoredAfter.comments = DOMAIN comments \cup {i}
              /\ \A k \in DOMAIN comments \ {i} :
                    StoredAfter.comments[k] = comments[k]
              /\ StoredAfter.jobs = StoredBefore.jobs
              /\ StoredAfter.timeSlots = StoredBefore.timeSlots ]_vars

(***************************************************************************)
(* Claims about the index of a job update                                  *)
(***************************************************************************)
\* the call that has just been made had an index outside 0..jobs.length-1
UpdateOutOfRange ==
    /\ lastUpdate # Null
    /\ lastUpdate.index \notin 0..(Len(lastUpdate.before.jobs) - 1)

\* C18: a job update with an index outside 0..jobs.length-1 is a reported
\* error: the call does not return normally, and the stored jobs are as
\* they were.
C18_OutOfRangeIsReported ==
    UpdateOutOfRange =>
        /\ lastUpdate.outcome # "returned"
        /\ lastUpdate.after.jobs = lastUpdate.before.jobs

\* what the code does: the call returns normally; an index past the end has
\* extended the stored jobs, with null at the positions in between
C18_OutOfRangeIsApplied ==
    UpdateOutOfRange =>
        /\ lastUpdate.outcome = "returned"
        /\ lastUpdate.index >= 0 =>
              /\ Len(lastUpdate.after.jobs) = lastUpdate.index + 1
              /\ lastUpdate.after.jobs[lastUpdate.index + 1] = lastUpdate.job
              /\ \A k \in (Len(lastUpdate.before.jobs) + 1)..lastUpdate.index :
                    lastUpdate.after.jobs[k] = Null
        /\ lastUpdate.index < 0 => lastUpdate.after.jobs = lastUpdate.before.jobs

(***************************************************************************)
(* Claims about the order of the jobs and of the messages                  *)
(***************************************************************************)
\* C14: the stored jobs are the table's data rows in their order, one per
\* row; message i is made from notification i; and a job update leaves the
\* number of the stored jobs and every job at another position as they
\* were, and the stored messages as they were saved.
C14_SequencesKept ==
    (stage = "saved" /\ WorksheetKey(ViewedId) \in DOMAIN localStorage) =>
        /\ Len(localStorage[WorksheetKey(ViewedId)].jobs)
              = Len(parseMarkdownTable(processedData.dataTable))
        /\ lastUpdate # Null =>
              \A k \in 1..Len(lastUpdate.before.jobs) :
                  k # lastUpdate.index + 1 =>
                      /\ k <= Len(lastUpdate.after.jobs)
                      /\ lastUpdate.after.jobs[k] = lastUpdate.before.jobs[k]
        /\ localStorage[MessagesKey(ViewedId)].messages
              = finalMessages(processedData.notifications, timeSlots)

\* what does hold: a save stores the table's data rows in their order, and
\* message i made from notification i
C14_SavedInOrder ==
    (stage = "saved" /\ WorksheetKey(now) \in DOMAIN localStorage) =>
        /\ localStorage[WorksheetKey(now)].jobs
              = parseMarkdownTable(processedData.dataTable)
        /\ localStorage[MessagesKey(now)].messages
              = finalMessages(processedData.notifications, timeSlots)

(***************************************************************************)
(* Claims about the lists                                                  *)
(***************************************************************************)
\* C19: a delete of an id removes the worksheet entry and the message-set
\* entry stored under the id, leaves the entries under every other key as
\* they were, adds none, and completes (the dialog is closed) also when
\* nothing was stored under the id.
C19_DeleteRemovesBoth ==
    lastDelete # Null =>
        /\ WorksheetKey(lastDelete.id) \notin DOMAIN localStorage
        /\ MessagesKey(lastDelete.id) \notin DOMAIN localStorage
        /\ DOMAIN localStorage
              = DOMAIN lastDelete.before
                  \ {WorksheetKey(lastDelete.id), MessagesKey(lastDelete.id)}
        /\ \A k \in DOMAIN localStorage : localStorage[k] = lastDelete.before[k]
        /\ ~deleteModal.isOpen

\* a delete of an id with both entries, next to entries of another id
C19_Witness ==
    /\ lastDelete # Null
    /\ WorksheetKey(lastDelete.id) \in DOMAIN lastDelete.before
    /\ MessagesKey(lastDelete.id) \in DOMAIN lastDelete.before
    /\ Cardinality(DOMAIN localStorage) = 2

\* a delete of an id with no entry
C19_WitnessNoEntry ==
    /\ lastDelete # Null
    /\ WorksheetKey(lastDelete.id) \notin DOMAIN lastDelete.before
    /\ MessagesKey(lastDelete.id) \notin DOMAIN lastDelete.before
    /\ localStorage = lastDelete.before
    /\ Cardinality(DOMAIN localStorage) > 0

\* the stored text is one that JSON.parse accepts
Parseable(value) == value # CorruptText

\* the time a stored value is listed by: createdAt, or date when there is
\* no createdAt; NaN when there is neither
EntryTime(value) ==
    IF "createdAt" \in DOMAIN value THEN value.createdAt
    ELSE IF "date" \in DOMAIN value THEN value.date
    ELSE NaN

\* the ids of the entries of a kind that a predicate holds for
IdsOf(prefix, Holds(_)) ==
    { k[2] : k \in { x \in KeysWith(localStorage, prefix) : Holds(localStorage[x]) } }

\* the list has one summary per id of the set, and those with a time come
\* most recent first
ListsMostRecentFirst(list, prefix, ids) ==
    /\ { list[k].id : k \in 1..Len(list) } = ids
    /\ Len(list) = Cardinality(ids)
    /\ \A i, j \in 1..Len(list) :
          LET ti == EntryTime(localStorage[<<prefix, list[i].id>>])
              tj == EntryTime(localStorage[<<prefix, list[j].id>>])
          IN  (i < j /\ ti # NaN /\ tj # NaN) => ti >= tj

\* C20: each listing holds exactly one summary per parseable entry of its
\* kind, none for a corrupt entry, most recent first by createdAt, or by
\* date for an entry without createdAt.
C20_ListingsComplete ==
    /\ activeView = "worksheets_list" =>
          ListsMostRecentFirst(worksheets, "worksheet_", IdsOf("worksheet_", Parseable))
    /\ activeView = "messages_list" =>
          ListsMostRecentFirst(messageGroups, "messages_", IdsOf("messages_", Parseable))

\* every stored entry of the kinds is corrupt or a record with a date
AllDatedOrCorrupt ==
    \A k \in DOMAIN localStorage :
        localStorage[k] = CorruptText \/ "date" \in DOMAIN localStorage[k]

\* what does hold: with entries that are corrupt or dated records, each
\* listing is complete and most recent first
C20_ListingsOfDatedRecords ==
    AllDatedOrCorrupt => C20_ListingsComplete

(***************************************************************************)
(* Claims about the extraction request                                     *)
(***************************************************************************)
ProcessError == "An error occurred while processing the images."
NoImagesError == "Please upload at least one image."

\* nothing of an extraction is held, and no extraction is under way
NothingExtracted ==
    /\ stage = "input"
    /\ processedData = Null
    /\ jobCount = 0
    /\ timeSlots = <<>>
    /\ ~isProcessing

\* C21: a step in which the awaited extraction settles without a result
\* (no credential, a rejected or empty or malformed response, an unreadable
\* file) sets the error message; while that message is shown the stage is
\* 'input', no processed data, job count or slots are held and the
\* processing flag is clear; a call with no image selected sets its message
\* and starts no extraction.
C21_FailedExtraction ==
    /\ [](error = ProcessError => NothingExtracted)
    /\ [][ ProcessWithoutImages =>
              /\ error' = NoImagesError
              /\ pcProcess' = pcProcess /\ isProcessing' = isProcessing
              /\ stage' = "input" /\ now' = now ]_vars
    /\ [][ (pcProcess = "awaiting" /\ pcProcess' = "idle" /\ processedData' = Null)
              => error' = ProcessError ]_vars
    /\ [][ \A k \in BOOLEAN, r \in ServiceResponses :
              (r.kind # "result" \/ ~k) =>
                  (ProcessSettles(TRUE, k, r) => error' = ProcessError) ]_vars

\* an extraction has failed on a response that is no result
C21_Witness ==
    /\ error = ProcessError
    /\ NothingExtracted
    /\ now = 1
    /\ imageFiles = 1

\* a call with no image has set its message
C21_WitnessNoImages ==
    /\ error = NoImagesError
    /\ imageFiles = 0
    /\ pcProcess = "idle"
    /\ NothingExtracted

(***************************************************************************)
(* Claims about the date label                                             *)
(***************************************************************************)
\* the date label the save stored
SavedLabel == localStorage[WorksheetKey(now)].dateLabel

\* the label is what the pattern matches in the line, or the calendar
\* fallback when the line holds no match; it is never empty
LabelOfLine(label, line) ==
    /\ label # <<>>
    /\ IF DateMatch(line) # <<>>
       THEN label = SubSeq(line, DateMatch(line)[1], DateMatch(line)[2])
       ELSE label \in TodayLabels

\* C22: the label is taken from the first line of the input alone: the
\* text the pattern matches there, or the calendar fallback when that line
\* holds no match, whatever the later lines hold.
C22_LabelFromFirstLine ==
    stage = "saved" =>
        LabelOfLine(SavedLabel, split(processedData.dataTable, "\n")[1])

\* what does hold: the label is taken from the first line of the trimmed
\* input
C22_LabelFromFirstLineOfTrimmed ==
    stage = "saved" =>
        LabelOfLine(SavedLabel, split(trim(processedData.dataTable), "\n")[1])

(***************************************************************************)
(* C23: while worksheet B is viewed, every storage write of the worksheet  *)
(* view goes to B's key, B has a stored record, the record written is B's  *)
(* own, and a comment text written was put into its card while B was       *)
(* viewed (an empty text is not counted).                                  *)
(***************************************************************************)
C23_WritesOnlyViewedData ==
    [][ (pcView = "open" /\ localStorage' # localStorage) =>
          LET key == WorksheetKey(worksheetId)
          IN  /\ \A k \in DOMAIN localStorage' :
                    k # key => /\ k \in DOMAIN localStorage
                               /\ localStorage'[k] = localStorage[k]
              /\ key \in DOMAIN localStorage
              /\ localStorage'[key].createdAt = worksheetId
              /\ \A i \in Cards(worksheet) :
                    (HandleCommentChange(i) /\ cardComment[i + 1] # <<>>)
                        => cardFrom[i + 1] = worksheetId ]_vars

\* the part of C23 that holds: a write goes to the viewed worksheet's key
\* only, and the record written is the one loaded from that key
C23_WritesOnlyViewedKey ==
    [][ (pcView = "open" /\ localStorage' # localStorage) =>
          LET key == WorksheetKey(worksheetId)
          IN  /\ \A k \in DOMAIN localStorage' :
                    k # key => /\ k \in DOMAIN localStorage
                               /\ localStorage'[k] = localStorage[k]
              /\ key \in DOMAIN localStorage
              /\ localStorage'[key].createdAt = worksheetId ]_vars

(***************************************************************************)
(* C24: every saved worksheet has exactly one time slot per job.           *)
(***************************************************************************)
C24_OneSlotPerJob ==
    \A id \in {now} :
        WorksheetKey(id) \in DOMAIN localStorage =>
            Len(localStorage[WorksheetKey(id)].timeSlots) =
                Len(localStorage[WorksheetKey(id)].jobs)

\* what the code keeps: one time slot per notification of the result
C24_OneSlotPerNotification ==
    \A id \in {now} :
        (stage = "saved" /\ WorksheetKey(id) \in DOMAIN localStorage) =>
            /\ Len(localStorage[WorksheetKey(id)].timeSlots) =
                   Len(processedData.notifications)
            /\ localStorage[WorksheetKey(id)].jobs =
                   JsonArray(parseMarkdownTable(processedData.dataTable))

(***************************************************************************)
(* C25: a connector whose effect has run and that is not loading displays  *)
(* no route or an estimate of its current origin and destination.          *)
(***************************************************************************)
C25_RouteOfCurrentProps ==
    (shown /\ ~fetchDue /\ ~loading /\ route # Null) =>
        route \in EstimateOutcomes(origin, destination)

\* the same for a connector whose origin and destination are both non-empty
C25_RouteOfCurrentAddresses ==
    (shown /\ ~fetchDue /\ ~loading /\ route # Null
           /\ origin # <<>> /\ destination # <<>>) =>
        route \in EstimateOutcomes(origin, destination)

(***************************************************************************)
(* C26: the stage moves input -> review -> saved -> input only; in stage   *)
(* 'review' the processed data is present; in stage 'input' there is no    *)
(* slot and jobCount is 0; the store is written by a save only, a save is  *)
(* made in stage 'review' and ends it, and it adds one worksheet entry and *)
(* one message-set entry, both under the same id, and changes no other.    *)
(***************************************************************************)
StageMoves == { <<"input", "review">>, <<"review", "saved">>, <<"saved", "input">> }

C26_StageCycle ==
    /\ [](stage = "review" => processedData # Null)
    /\ [](stage = "input" => (timeSlots = <<>> /\ jobCount = 0))
    /\ [][ stage' # stage => <<stage, stage'>> \in StageMoves ]_vars
    /\ [][ localStorage' # localStorage =>
              /\ stage = "review" /\ stage' = "saved"
              /\ DOMAIN localStorage' \ DOMAIN localStorage
                    = { WorksheetKey(now), MessagesKey(now) }
              /\ WorksheetKey(now) # MessagesKey(now)
              /\ \A k \in DOMAIN localStorage : localStorage'[k] = localStorage[k] ]_vars

\* the stage is back at 'input' after a review that was saved
C26_Witness ==
    /\ stage = "input"
    /\ WorksheetKey(now) \in DOMAIN localStorage
    /\ MessagesKey(now) \in DOMAIN localStorage

(***************************************************************************)
(* C27: in the flow of the application a save finds as many slots as       *)
(* notifications, so that every saved message is its notification with the *)
(* placeholder replaced by "start - end" of its own slot, and no saved      *)
(* message contains the "[TIME]" marker.                                   *)
(***************************************************************************)
C27_NoMarkerSaved ==
    stage = "saved" =>
        /\ Len(timeSlots) = Len(processedData.notifications)
        /\ Len(SavedMessages) = Len(timeSlots)
        /\ \A i \in 1..Len(SavedMessages) :
              /\ ~includes(SavedMessages[i], TimeMarker)
              /\ SavedMessages[i] =
                    replace(processedData.notifications[i], Placeholder,
                            timeSlots[i].start \o <<" ","-"," ">> \o timeSlots[i].end)
              /\ SavedMessages[i] # processedData.notifications[i]

\* a save of three messages after the user picked another start for a slot
C27_Witness ==
    /\ stage = "saved"
    /\ Len(SavedMessages) = MaxJobs
    /\ edited # NoEdits

(***************************************************************************)
(* C28: after any sequence of saves, deletions in the worksheet list,      *)
(* deletions in the message list and clearings of all data, a worksheet    *)
(* entry is stored under an id exactly when a message-set entry is.        *)
(***************************************************************************)
C28_EntriesPaired ==
    \A id \in 1..(MaxIds + 1) :
        WorksheetKey(id) \in DOMAIN localStorage
            <=> MessagesKey(id) \in DOMAIN localStorage

\* the half that holds: a message set is stored with its worksheet
C28_MessagesHaveWorksheet ==
    \A id \in 1..(MaxIds + 1) :
        MessagesKey(id) \in DOMAIN localStorage
            => WorksheetKey(id) \in DOMAIN localStorage

(***************************************************************************)
(* C29: the debounced persistence of a comment is last-write-wins.  A card *)
(* that stays shown with its text has that text persisted as its comment   *)
(* in the end; a write of comments is made by the expiry of one card's     *)
(* timer and stores, for that card, the text the card holds at that moment *)
(* and, for every other card, the text its own timer wrote last; an edit   *)
(* writes nothing itself, and after the view is left no timer is pending   *)
(* and nothing is written.                                                 *)
(***************************************************************************)
CardShown(i) == pcView = "open" /\ i \in Cards(worksheet)

PersistedComment(store, i) ==
    savedComment(store[WorksheetKey(ViewedId)].comments, i)

C29_LastWriteWins ==
    /\ \A i \in 0..(MaxJobs - 1), t \in CommentTexts :
          (CardShown(i) /\ cardComment[i + 1] = t)
              ~> ( \/ ~CardShown(i)
                   \/ cardComment[i + 1] # t
                   \/ PersistedComment(localStorage, i) = t )
    /\ [][ (lastUpdate' = Null /\ localStorage' # localStorage) =>
              \E i \in timers :
                  /\ timers' = timers \ {i}
                  /\ CardShown(i)
                  /\ cardComment' = cardComment
                  /\ PersistedComment(localStorage', i) = cardComment[i + 1]
                  /\ \A j \in 0..(MaxJobs - 1) \ {i} :
                        PersistedComment(localStorage', j) = savedComment(comments, j) ]_vars
    /\ [][ cardComment' # cardComment => localStorage' = localStorage ]_vars
    /\ [](pcView = "closed" => timers = {})
    /\ [][ pcView = "closed" => localStorage' = localStorage ]_vars

\* after a job update, the text typed into the first card is its persisted
\* comment and its timer has expired
C29_Witness ==
    /\ CardShown(0)
    /\ cardComment[1] = <<"o","k">>
    /\ PersistedComment(localStorage, 0) = <<"o","k">>
    /\ 0 \notin timers
    /\ updates > 0

(***************************************************************************)
(* C30: a poll is issued only while the status is 'searching', and a       *)
(* result of an agent job that is shown as complete or failed is the       *)
(* result of the job that the most recent submission returned.             *)
(***************************************************************************)
C30_ResultOfLatestSearch ==
    /\ [][ pollsInFlight' \ pollsInFlight # {} => searchStatus = "searching" ]_vars
    /\ []( (searchStatus \in {"complete", "failed"} /\ searchResult.kind = "job")
              => searchResult.job = searches )

\* the half that holds: a poll is issued only while the status is
\* 'searching', and for the job id the card holds
C30_PollsWhileSearching ==
    [][ pollsInFlight' \ pollsInFlight # {} =>
          /\ searchStatus = "searching"
          /\ pollsInFlight' \ pollsInFlight = {currentJobId} ]_vars

====
